---- MODULE Spec2Model ----
(***************************************************************************)
(* State-machine model of parts of the rx-player streaming core:           *)
(*   - the range algebra (src/src/utils/ranges.ts),                        *)
(*   - the auto-mode hysteresis of the RepresentationEstimator,            *)
(*   - the playback clock (rebuffering / freezing statuses),               *)
(*   - the segment request store (createRequest / freeRequest),            *)
(*   - the custom segment loader wrapper and its cancellation,             *)
(*   - loadAndPushSegment.                                                 *)
(* Each sub-system has its own specification (SpecRanges, SpecAbr, ...);   *)
(* the sub-systems do not share state, so every specification leaves the   *)
(* variables of the other sub-systems unchanged.                           *)
(***************************************************************************)
EXTENDS Integers, Sequences, FiniteSets, TLC

VARIABLES
  ranges,        \* ranges.ts: the IRange[] array mutated by insertInto
  abr,           \* RepresentationEstimator: closure state of the estimate$ pipeline
  options,       \* createClock: { withMediaSource, lowLatencyMode }
  mediaElement,  \* createClock: the HTMLMediaElement sampled by the clock
  clock,         \* createClock: lastTimings + internalSeekingComingCounter
  sampled,       \* history: the timings the last tick started from (see Tick)
  store,         \* part_006: the `requests` Map and the segment fetcher subscriptions
  loader,        \* part_013: one custom-loader call of segmentLoader
  push,          \* part_011: one call of loadAndPushSegment
  rate,          \* updatePlaybackRate: the user speed and the forcePause$ pipeline
  play,          \* performInitialSeekAndPlay: one call, its promise and its reference
  periodStream,  \* PeriodStream: its source buffer status and its inner stream
  estimator,     \* createRepresentationEstimator: the estimator$ pipeline
  segmentLoad,   \* part_013: one call of segmentLoader: its inputs and the loaders it calls
  rangeOps,      \* ranges.ts: one call of excludeFromRanges, and time queries on a list
  directfile,    \* part_004: one call of getDirectFileInitialTime
  eme            \* EMEManager: the bindSession$ pipeline, the certificate, the sessions

vars ==
  <<ranges, abr, options, mediaElement, clock, sampled, store, loader, push, rate, play,
    periodStream, estimator, segmentLoad, rangeOps, directfile, eme>>

\* JavaScript null / undefined. A value that may be null is kept as a sequence:
\* NULL when it is null, Some(v) otherwise.
NULL == <<>>
Some(v) == <<v>>

\* JavaScript Infinity, as a number larger than every finite number of the model.
Infinity == 1000000

Min(a, b) == IF a < b THEN a ELSE b
Max(a, b) == IF a > b THEN a ELSE b
Abs(a) == IF a < 0 THEN -a ELSE a

RemoveAt(s, i) == SubSeq(s, 1, i - 1) \o SubSeq(s, i + 1, Len(s))
InsertAt(s, i, e) == SubSeq(s, 1, i - 1) \o <<e>> \o SubSeq(s, i, Len(s))

(***************************************************************************)
(* Range algebra (src/src/utils/ranges.ts).                                *)
(* Times are counted in units of 1/120 s, so that EPSILON = 1/60 s is 2.   *)
(***************************************************************************)

\* Largest time (in 1/120 s) of a range given to insertInto.
MaxTime == 9

EPSILON == 2

nearlyEqual_NonStrict(a, b) == Abs(a - b) <= EPSILON

nearlyEqual(a, b) == Abs(a - b) < EPSILON

createRangeUnion(range1, range2) ==
  [start |-> Min(range1.start, range2.start), end |-> Max(range1.end, range2.end)]

removeEmptyRanges(rs) == SelectSeq(rs, LAMBDA r : r.start # r.end)

isAfter(range1, range2) == range1.start >= range2.end

isBefore(range1, range2) == range1.end <= range2.start

isTimeInRange(range, time) == range.start <= time /\ time < range.end

areRangesOverlapping_StartExclusive(range1, range2) ==
  \/ (range1.start < range2.start /\ range2.start < range1.end)
  \/ (range1.start < range2.end /\ range2.end < range1.end)
  \/ (range2.start < range1.start /\ range1.start < range2.end)

areRangesOverlapping(range1, range2) ==
  \/ isTimeInRange(range1, range2.start)
  \/ (range1.start < range2.end /\ range2.end < range1.end)
  \/ isTimeInRange(range2, range1.start)

areRangesNearlyContiguous_OneSided(range1, range2) ==
  nearlyEqual(range2.end, range1.start)

areRangesNearlyContiguous(range1, range2) ==
  nearlyEqual(range2.start, range1.end) \/ nearlyEqual(range2.end, range1.start)

\* The for loop of mergeContiguousRanges; index is the 0-based loop index.
RECURSIVE mergeContiguousLoop(_, _)
mergeContiguousLoop(rs, index) ==
  IF index >= Len(rs) THEN rs
  ELSE LET prevRange == rs[index]
           currRange == rs[index + 1]
       IN IF areRangesNearlyContiguous(prevRange, currRange)
          THEN \* ranges.splice(--index, 2, unionRange); then index++
               mergeContiguousLoop(
                 SubSeq(rs, 1, index - 1)
                   \o <<createRangeUnion(prevRange, currRange)>>
                   \o SubSeq(rs, index + 2, Len(rs)),
                 index)
          ELSE mergeContiguousLoop(rs, index + 1)

mergeContiguousRanges(rs) == mergeContiguousLoop(rs, 1)

\* getRange: the last range containing `time`, or null.
RECURSIVE getRangeFrom(_, _, _)
getRangeFrom(rs, time, i) ==
  IF i < 1 THEN NULL
  ELSE IF time >= rs[i].start /\ time < rs[i].end THEN Some(rs[i])
  ELSE getRangeFrom(rs, time, i - 1)

getRange(rs, time) == getRangeFrom(rs, time, Len(rs))

\* The for loop of insertInto; index is the 0-based loop index. Returns the
\* array, the (grown) range to add and the index at which the loop stopped.
RECURSIVE insertIntoLoop(_, _, _)
insertIntoLoop(rs, rangeToAdd, index) ==
  IF index >= Len(rs) THEN [ranges |-> rs, rangeToAdd |-> rangeToAdd, index |-> index]
  ELSE LET range == rs[index + 1]
           overlapping == areRangesOverlapping(rangeToAdd, range)
           contiguous == areRangesNearlyContiguous(rangeToAdd, range)
           stop == [ranges |-> rs, rangeToAdd |-> rangeToAdd, index |-> index]
       IN IF overlapping \/ contiguous
          THEN \* ranges.splice(index--, 1); then index++
               insertIntoLoop(RemoveAt(rs, index + 1),
                              createRangeUnion(rangeToAdd, range), index)
          ELSE IF index = 0
               THEN IF isBefore(rangeToAdd, rs[1])
                    THEN stop
                    ELSE insertIntoLoop(rs, rangeToAdd, index + 1)
               ELSE IF isBefore(rs[index], rangeToAdd) /\ isBefore(rangeToAdd, range)
                    THEN stop
                    ELSE insertIntoLoop(rs, rangeToAdd, index + 1)

insertInto(rs, rangeToAddArg) ==
  IF rangeToAddArg.start = rangeToAddArg.end THEN rs
  ELSE LET l == insertIntoLoop(rs, rangeToAddArg, 0)
       IN mergeContiguousRanges(
            removeEmptyRanges(InsertAt(l.ranges, l.index + 1, l.rangeToAdd)))

\* The ranges a caller may give: start <= end, empty ranges included.
RangeInputs == { [start |-> s, end |-> e] : s \in 0..MaxTime, e \in 0..MaxTime }
                 \cap { r \in [start : 0..MaxTime, end : 0..MaxTime] : r.start <= r.end }

InitRanges == ranges = <<>>

InsertRange ==
  /\ \E r \in RangeInputs : ranges' = insertInto(ranges, r)
  /\ UNCHANGED <<abr, options, mediaElement, clock, sampled, store, loader, push, rate, play, periodStream, estimator, segmentLoad, rangeOps, directfile, eme>>

NextRanges == InsertRange

(***************************************************************************)
(* Range algebra: excludeFromRanges and the time queries (ranges.ts).      *)
(* rangeOps.baseRanges and rangeOps.rangesToExclude are the arguments of   *)
(* one call of excludeFromRanges and rangeOps.excluded what it returned    *)
(* (NULL before the call). rangeOps.query is the last time asked about     *)
(* rangeOps.baseRanges, with what isTimeInRanges and getLeftSizeOfRange    *)
(* returned for it (NULL before the first query).                          *)
(***************************************************************************)

\* Largest time of a range of the argument lists, and largest length of a list.
MaxRangeTime == 4
MaxRangeCount == 2

\* The times asked about: every time of the lists, one before and one after.
QueryTimes == (0 - 1)..(MaxRangeTime + 1)

RangeValues ==
  { r \in [start : 0..MaxRangeTime, end : 0..MaxRangeTime] : r.start <= r.end }

\* The lists sorted by start and pairwise disjoint (each range ends at or
\* before the start of the next one), ranges with start = end included.
SortedRangeLists ==
  UNION { { rs \in [1..n -> RangeValues] :
              \A i \in 1..(n - 1) : /\ rs[i].start <= rs[i + 1].start
                                     /\ rs[i].end <= rs[i + 1].start }
          : n \in 0..MaxRangeCount }

\* isTimeInRanges (lines 126-133).
isTimeInRanges(rs, time) == \E i \in 1..Len(rs) : isTimeInRange(rs[i], time)

getLeftSizeOfRange_NullIsZero(rs, currentTime) ==
  LET range == getRange(rs, currentTime)
  IN IF range # NULL THEN range[1].end - currentTime ELSE 0

\* getLeftSizeOfRange (lines 360-363).
getLeftSizeOfRange(rs, currentTime) ==
  LET range == getRange(rs, currentTime)
  IN IF range # NULL THEN range[1].end - currentTime ELSE Infinity

findOverlappingRanges_All(range, rs) == rs

\* findOverlappingRanges (lines 432-440).
findOverlappingRanges(range, rs) ==
  SelectSeq(rs, LAMBDA other : areRangesOverlapping(range, other))

\* lines 504-510: the intersections of a base range with the ranges
\* overlapping it.
intersectionsWith(range, overlappingRanges) ==
  [j \in 1..Len(overlappingRanges) |->
     [start |-> Max(range.start, overlappingRanges[j].start),
      end |-> Min(range.end, overlappingRanges[j].end)]]

startsAfter_OrAt(start, lastStart) == start >= lastStart

\* line 517: an intersection leaves a part of the base range before it.
startsAfter(start, lastStart) == start > lastStart

\* The for loop of lines 516-521; j is the 1-based rank of the intersection.
\* Returns the parts pushed and the last value of lastStart.
RECURSIVE excludeIntersections(_, _, _, _)
excludeIntersections(intersections, j, lastStart, pushed) ==
  IF j > Len(intersections) THEN [pushed |-> pushed, lastStart |-> lastStart]
  ELSE excludeIntersections(
         intersections, j + 1, intersections[j].end,
         IF startsAfter(intersections[j].start, lastStart)
         THEN Append(pushed, [start |-> lastStart, end |-> intersections[j].start])
         ELSE pushed)

\* The body of the loop of lines 499-526: what one base range adds to result.
excludeFromRange(range, rangesToExclude) ==
  LET intersections ==
        intersectionsWith(range, findOverlappingRanges(range, rangesToExclude))
  IN IF Len(intersections) = 0 THEN <<range>>
     ELSE LET l == excludeIntersections(intersections, 1, range.start, <<>>)
          IN IF l.lastStart < range.end
             THEN Append(l.pushed, [start |-> l.lastStart, end |-> range.end])
             ELSE l.pushed

\* excludeFromRanges (lines 494-528); i is the 1-based rank of the base range.
RECURSIVE excludeFromRangesLoop(_, _, _, _)
excludeFromRangesLoop(baseRanges, rangesToExclude, i, result) ==
  IF i > Len(baseRanges) THEN result
  ELSE excludeFromRangesLoop(baseRanges, rangesToExclude, i + 1,
                             result \o excludeFromRange(baseRanges[i], rangesToExclude))

excludeFromRanges(baseRanges, rangesToExclude) ==
  excludeFromRangesLoop(baseRanges, rangesToExclude, 1, <<>>)

InitRangeOps ==
  \E baseRanges \in SortedRangeLists, rangesToExclude \in SortedRangeLists :
    rangeOps = [baseRanges |-> baseRanges, rangesToExclude |-> rangesToExclude,
                excluded |-> NULL, query |-> NULL]

RangeOpsOthersUnchanged ==
  UNCHANGED <<ranges, abr, options, mediaElement, clock, sampled, store, loader, push,
              rate, play, periodStream, estimator, segmentLoad, directfile, eme>>

ExcludeFromRanges ==
  /\ rangeOps.excluded = NULL
  /\ rangeOps' = [rangeOps EXCEPT
                    !.excluded = Some(excludeFromRanges(rangeOps.baseRanges,
                                                        rangeOps.rangesToExclude))]
  /\ RangeOpsOthersUnchanged

\* isTimeInRanges(baseRanges, time) and getLeftSizeOfRange(baseRanges, time).
QueryRanges ==
  /\ \E time \in QueryTimes :
       rangeOps' = [rangeOps EXCEPT
                      !.query = Some([time |-> time,
                                      isTimeInRanges |-> isTimeInRanges(rangeOps.baseRanges, time),
                                      leftSize |-> getLeftSizeOfRange(rangeOps.baseRanges, time)])]
  /\ RangeOpsOthersUnchanged

NextExclude == ExcludeFromRanges

NextQuery == QueryRanges

NextRangeOps == NextExclude \/ NextQuery

(***************************************************************************)
(* RepresentationEstimator                                                 *)
(* (src/dist/_esm5.processed/core/abr/representation_estimator.js).        *)
(* Buffer gaps are in seconds. A representation is named by its bitrate,   *)
(* and a list of representations is sorted by ascending bitrate. What      *)
(* NetworkAnalyzer, BufferBasedChooser, the filters and the score          *)
(* calculator return is an input of each evaluation. The speed of a clock  *)
(* tick is counted in halves (SpeedUnit is the speed 1) and                *)
(* knownStableBitrate in halves of the unit of the bitrates (HintUnit is   *)
(* the bitrate 1), so that the division of line 148 is exact.              *)
(***************************************************************************)

\* Number of times manualBitrate$ may emit (each emission starts a new session).
MaxSessions == 2

\* clock.bufferGap values fed to the estimator (seconds).
AbrBufferGaps == {5, 10, 11, Infinity}

\* Bitrates of the representations.
Bitrates == {1, 2, 3}

\* The `representations` argument: one representation, or three.
RepresentationLists == {<<2>>, <<1, 2, 3>>}

\* What getFilteredRepresentations may keep of a list: all of it, all but the
\* representation of highest bitrate (a bitrate filter), or all but the
\* representation of lowest bitrate (a width filter).
FilteredLists(representations) ==
  {representations} \cup
  (IF Len(representations) > 1
   THEN {SubSeq(representations, 1, Len(representations) - 1),
         SubSeq(representations, 2, Len(representations))}
   ELSE {})

\* Values of manualBitrate$ that ask for the manual mode.
ManualBitrates == {0, 2, 4}

\* networkAnalyzer.getBandwidthEstimate(...).bitrateChosen.
BitratesChosen == {0, 2, 4}

\* Bitrates BufferBasedChooser may return (undefined apart).
BufferBasedBitrates == {1, 3}

\* The speed 1, and the bitrate 1 as a knownStableBitrate.
SpeedUnit == 2
HintUnit == 2

\* clock.speed: -1, 0, 0.5, 1 and 2.
ClockSpeeds == {0 - 2, 0, 1, 2, 4}

\* scoreCalculator.getLastStableRepresentation(): null, or a representation.
StableRepresentations == {NULL} \cup {Some(b) : b \in Bitrates}

\* Values of minAutoBitrate$ and maxAutoBitrate$.
MinAutoBitrates == {0, 2}
MaxAutoBitrates == {1, 3, Infinity}

isFinite(x) == x # Infinity

\* The target of selectOptimalRepresentation, kept between the two bounds.
wantedBitrate(optimalBitrate, minBitrate, maxBitrate) ==
  IF optimalBitrate <= minBitrate THEN minBitrate
  ELSE IF optimalBitrate >= maxBitrate THEN maxBitrate
  ELSE optimalBitrate

selectOptimalRepresentation_Lowest(representations, optimalBitrate, minBitrate, maxBitrate) ==
  representations[1]

\* selectOptimalRepresentation: the bitrate of the representation with the
\* highest bitrate at or below the target, the lowest one when there is none.
selectOptimalRepresentation(representations, optimalBitrate, minBitrate, maxBitrate) ==
  LET wanted == wantedBitrate(optimalBitrate, minBitrate, maxBitrate)
      fitting == { i \in 1..Len(representations) : representations[i] <= wanted }
  IN IF fitting = {} THEN representations[1]
     ELSE representations[CHOOSE i \in fitting : \A k \in fitting : k <= i]

forceBandwidthModeAfter_NoFiniteCheck(forceBandwidthMode, bufferGap) ==
  IF ~forceBandwidthMode /\ bufferGap <= 5 THEN TRUE
  ELSE IF forceBandwidthMode /\ bufferGap > 10 THEN FALSE
  ELSE forceBandwidthMode

\* lines 150-155: the hysteresis on forceBandwidthMode.
forceBandwidthModeAfter(forceBandwidthMode, bufferGap) ==
  IF ~forceBandwidthMode /\ bufferGap <= 5 THEN TRUE
  ELSE IF forceBandwidthMode /\ isFinite(bufferGap) /\ bufferGap > 10 THEN FALSE
  ELSE forceBandwidthMode

estimateSource_BufferBasedWhenLower(forceBandwidthMode, chosenRepFromBandwidthBitrate, bufferBasedBitrate) ==
  IF forceBandwidthMode THEN "bandwidth"
  ELSE IF bufferBasedBitrate = NULL \/ bufferBasedBitrate[1] >= chosenRepFromBandwidthBitrate
       THEN "bandwidth"
       ELSE "bufferBased"

\* lines 157-179: which estimate the emitted representation comes from.
estimateSource(forceBandwidthMode, chosenRepFromBandwidthBitrate, bufferBasedBitrate) ==
  IF forceBandwidthMode THEN "bandwidth"
  ELSE IF bufferBasedBitrate = NULL \/ chosenRepFromBandwidthBitrate >= bufferBasedBitrate[1]
       THEN "bandwidth"
       ELSE "bufferBased"

autoRepresentation_ComparesWithMax(forceBandwidthMode, representations, bitrateChosen, bufferBasedBitrate, minAutoBitrate, maxAutoBitrate) ==
  LET chosenRepFromBandwidth ==
        selectOptimalRepresentation(representations, bitrateChosen,
                                    minAutoBitrate, maxAutoBitrate)
  IN IF forceBandwidthMode \/ bufferBasedBitrate = NULL
        \/ chosenRepFromBandwidth >= maxAutoBitrate
     THEN chosenRepFromBandwidth
     ELSE selectOptimalRepresentation(representations, bufferBasedBitrate[1],
                                      minAutoBitrate, maxAutoBitrate)

\* lines 156-179: the representation of an auto-mode estimate.
autoRepresentation(forceBandwidthMode, representations, bitrateChosen, bufferBasedBitrate, minAutoBitrate, maxAutoBitrate) ==
  LET chosenRepFromBandwidth ==
        selectOptimalRepresentation(representations, bitrateChosen,
                                    minAutoBitrate, maxAutoBitrate)
  IN IF estimateSource(forceBandwidthMode, chosenRepFromBandwidth, bufferBasedBitrate)
          = "bandwidth"
     THEN chosenRepFromBandwidth
     ELSE selectOptimalRepresentation(representations, bufferBasedBitrate[1],
                                      minAutoBitrate, maxAutoBitrate)

manualRepresentation_First(representations, manualBitrate) == representations[1]

\* line 108: the representation of a manual estimate.
manualRepresentation(representations, manualBitrate) ==
  selectOptimalRepresentation(representations, manualBitrate, 0, Infinity)

knownStableBitrateOf_IgnoresSpeed(stableRepresentation, speed) ==
  IF stableRepresentation = NULL THEN NULL
  ELSE Some(stableRepresentation[1] * HintUnit)

\* lines 146-148: knownStableBitrate.
knownStableBitrateOf(stableRepresentation, speed) ==
  IF stableRepresentation = NULL THEN NULL
  ELSE Some((stableRepresentation[1] * HintUnit * SpeedUnit)
              \div (IF speed > 0 THEN speed ELSE SpeedUnit))

\* The closure state of one RepresentationEstimator and its last estimate.
AbrState(representations) ==
  [representations |-> representations,
   session |-> 0, mode |-> "none", forceBandwidthMode |-> TRUE,
   prevForceBandwidthMode |-> TRUE, bufferGap |-> NULL,
   manualBitrate |-> NULL, filtered |-> NULL, bitrateChosen |-> NULL,
   minAutoBitrate |-> NULL, maxAutoBitrate |-> NULL,
   bufferBasedBitrate |-> NULL, chosenRepFromBandwidthBitrate |-> NULL,
   source |-> "none",
   speed |-> NULL, stableRepresentation |-> NULL, knownStableBitrate |-> NULL,
   representation |-> NULL, manual |-> FALSE, urgent |-> NULL]

\* No subscription to estimate$ yet.
InitAbr == \E representations \in RepresentationLists : abr = AbrState(representations)

AbrOthersUnchanged ==
  UNCHANGED <<ranges, options, mediaElement, clock, sampled, store, loader, push, rate, play, periodStream, estimator, segmentLoad, rangeOps, directfile, eme>>

\* estimate$ is subscribed to with a single representation: it emits that
\* representation once (lines 97-104), whatever manualBitrate$ holds.
SingleRepresentation ==
  /\ Len(abr.representations) = 1
  /\ abr.mode = "none"
  /\ \E manualBitrate \in ManualBitrates \cup {-1} :
       abr' = [abr EXCEPT !.mode = "single",
                          !.manualBitrate = Some(manualBitrate),
                          !.source = "single",
                          !.representation = Some(abr.representations[1]),
                          !.manual = FALSE,
                          !.urgent = Some(TRUE)]
  /\ AbrOthersUnchanged

\* manualBitrate$ emits a value >= 0: switchMap drops the auto pipeline and
\* emits the manual estimate (lines 106-116).
ManualBitrate ==
  /\ Len(abr.representations) > 1
  /\ abr.session < MaxSessions
  /\ \E manualBitrate \in ManualBitrates :
       abr' = [AbrState(abr.representations) EXCEPT
                 !.session = abr.session + 1,
                 !.mode = "manual",
                 !.manualBitrate = Some(manualBitrate),
                 !.source = "manual",
                 !.representation =
                   Some(manualRepresentation(abr.representations, manualBitrate)),
                 !.manual = TRUE,
                 !.urgent = Some(TRUE)]
  /\ AbrOthersUnchanged

\* manualBitrate$ emits a negative value: a new auto pipeline is created, with
\* its own lastEstimatedBitrate and forceBandwidthMode = true (lines 117-119).
AutoBitrate ==
  /\ Len(abr.representations) > 1
  /\ abr.session < MaxSessions
  /\ abr' = [AbrState(abr.representations) EXCEPT
               !.session = abr.session + 1,
               !.mode = "auto",
               !.manualBitrate = Some(-1)]
  /\ AbrOthersUnchanged

\* The map callback of lines 138-180, with the latest clock tick (bufferGap
\* and speed). prevForceBandwidthMode records the flag before the call.
\* `urgent` is what networkAnalyzer.isUrgent returns, which is left out (NULL).
autoEstimate(a, bufferGap, speed, bitrateChosen, bb, _representations, minAutoBitrate, maxAutoBitrate, stableRepresentation) ==
  LET fbm == forceBandwidthModeAfter(a.forceBandwidthMode, bufferGap)
      chosenRepFromBandwidth ==
        selectOptimalRepresentation(_representations, bitrateChosen,
                                    minAutoBitrate, maxAutoBitrate)
  IN [a EXCEPT
        !.forceBandwidthMode = fbm,
        !.prevForceBandwidthMode = a.forceBandwidthMode,
        !.bufferGap = Some(bufferGap),
        !.filtered = Some(_representations),
        !.bitrateChosen = Some(bitrateChosen),
        !.minAutoBitrate = Some(minAutoBitrate),
        !.maxAutoBitrate = Some(maxAutoBitrate),
        !.bufferBasedBitrate = bb,
        !.chosenRepFromBandwidthBitrate = Some(chosenRepFromBandwidth),
        !.source = estimateSource(fbm, chosenRepFromBandwidth, bb),
        !.speed = Some(speed),
        !.stableRepresentation = stableRepresentation,
        !.knownStableBitrate = knownStableBitrateOf(stableRepresentation, speed),
        !.representation =
          Some(autoRepresentation(fbm, _representations, bitrateChosen, bb,
                                  minAutoBitrate, maxAutoBitrate)),
        !.manual = FALSE,
        !.urgent = NULL]

\* combineLatest emits (a new clock tick, min/max bitrate, filters or
\* buffer-based estimate) while the content plays at speed 1 and no
\* representation is known to be stable.
AutoEstimate ==
  /\ abr.mode = "auto"
  /\ \E bufferGap \in AbrBufferGaps, bitrateChosen \in BitratesChosen,
        bb \in {Some(b) : b \in BufferBasedBitrates} \cup {NULL},
        _representations \in FilteredLists(abr.representations),
        minAutoBitrate \in MinAutoBitrates, maxAutoBitrate \in MaxAutoBitrates :
       abr' = autoEstimate(abr, bufferGap, SpeedUnit, bitrateChosen, bb, _representations,
                           minAutoBitrate, maxAutoBitrate, NULL)
  /\ AbrOthersUnchanged

\* combineLatest emits at any speed, with or without a stable representation;
\* no filter, no bound on the bitrate and no buffer-based estimate.
AutoEstimateAtSpeed ==
  /\ abr.mode = "auto"
  /\ \E bufferGap \in AbrBufferGaps, speed \in ClockSpeeds,
        bitrateChosen \in BitratesChosen,
        stableRepresentation \in StableRepresentations :
       abr' = autoEstimate(abr, bufferGap, speed, bitrateChosen, NULL,
                           abr.representations, 0, Infinity, stableRepresentation)
  /\ AbrOthersUnchanged

NextAbr == SingleRepresentation \/ ManualBitrate \/ AutoBitrate \/ AutoEstimate

\* The sessions in auto mode, at every speed.
NextAbrSpeed == ManualBitrate \/ AutoBitrate \/ AutoEstimateAtSpeed

(***************************************************************************)
(* Playback clock (src/unnamed/part_005, createClock).                     *)
(* Times are in half seconds. The media element is the environment: its    *)
(* attributes change between two clock ticks, one attribute at a time, and *)
(* a tick samples them. Of a timings object the clock keeps (lastTimings)  *)
(* the model stores the fields a later tick reads back: event, position,   *)
(* rebuffering, freezing and internalSeeking; the other fields of an       *)
(* emitted observation are the attributes of the media element at the      *)
(* tick. The timestamps (performance.now()) and the rebuffering position,  *)
(* which no tick reads back, are not stored.                               *)
(***************************************************************************)

\* config.REBUFFERING_GAP, in half seconds.
REBUFFERING_GAP(suffix) == IF suffix = "LOW_LATENCY" THEN 1 ELSE 2

\* config.RESUME_GAP_AFTER_SEEKING, in half seconds.
RESUME_GAP_AFTER_SEEKING(suffix) == IF suffix = "LOW_LATENCY" THEN 1 ELSE 3

\* config.RESUME_GAP_AFTER_NOT_ENOUGH_DATA, in half seconds.
RESUME_GAP_AFTER_NOT_ENOUGH_DATA(suffix) == IF suffix = "LOW_LATENCY" THEN 1 ELSE 1

\* config.RESUME_GAP_AFTER_BUFFERING, in half seconds.
RESUME_GAP_AFTER_BUFFERING(suffix) == IF suffix = "LOW_LATENCY" THEN 1 ELSE 10

\* config.MINIMUM_BUFFER_AMOUNT_BEFORE_FREEZING, in half seconds.
MINIMUM_BUFFER_AMOUNT_BEFORE_FREEZING == 20

\* SCANNED_MEDIA_ELEMENTS_EVENTS plus the "timeupdate" of the sampling interval.
\* "play" stands for the events no branch of the clock names ("play",
\* "seeked", "ratechange").
ClockEvents == {"timeupdate", "canplay", "play", "seeking", "loadedmetadata"}

\* Values of the attributes of the media element.
MediaTimes == {0, 1}
MediaDurations == {40}
MediaBuffered ==
  { <<>>,
    <<[start |-> 0, end |-> 3]>>,
    <<[start |-> 0, end |-> 22]>>,
    <<[start |-> 0, end |-> 40]>> }
MediaReadyStates == {0, 1, 2}
MediaPlaybackRates == {0, 1}

Suffix(lowLatencyMode) == IF lowLatencyMode THEN "LOW_LATENCY" ELSE "DEFAULT"

getRebufferingEndGap_IgnoresReason(rebufferingStatus, lowLatencyMode) ==
  IF rebufferingStatus = NULL THEN 0
  ELSE RESUME_GAP_AFTER_BUFFERING(Suffix(lowLatencyMode))

getRebufferingEndGap(rebufferingStatus, lowLatencyMode) ==
  IF rebufferingStatus = NULL THEN 0
  ELSE CASE rebufferingStatus[1].reason = "seeking"
              -> RESUME_GAP_AFTER_SEEKING(Suffix(lowLatencyMode))
         [] rebufferingStatus[1].reason = "not-ready"
              -> RESUME_GAP_AFTER_NOT_ENOUGH_DATA(Suffix(lowLatencyMode))
         [] rebufferingStatus[1].reason = "buffering"
              -> RESUME_GAP_AFTER_BUFFERING(Suffix(lowLatencyMode))

hasLoadedUntilTheEnd(currentRange, duration, lowLatencyMode) ==
  /\ currentRange # NULL
  /\ (duration - currentRange[1].end) <= REBUFFERING_GAP(Suffix(lowLatencyMode))

getMediaInfos(element, event) ==
  LET currentRange == getRange(element.buffered, element.currentTime)
  IN [bufferGap |-> IF currentRange # NULL
                    THEN currentRange[1].end - element.currentTime
                    ELSE Infinity,
      currentRange |-> currentRange,
      position |-> element.currentTime,
      duration |-> element.duration,
      ended |-> element.ended,
      paused |-> element.paused,
      playbackRate |-> element.playbackRate,
      readyState |-> element.readyState,
      seeking |-> element.seeking,
      event |-> event]

\* The reason of a rebuffering status that is kept or entered (lines 173-186).
rebufferingReason(prevRebuffering, currentTimings) ==
  IF \/ currentTimings.event = "seeking"
     \/ (prevRebuffering # NULL /\ prevRebuffering[1].reason = "seeking")
    THEN "seeking"
  ELSE IF currentTimings.seeking THEN "seeking"
  ELSE IF currentTimings.readyState = 1 THEN "not-ready"
  ELSE "buffering"

\* lines 117-121.
canSwitchToRebuffering(prevTimings, currentTimings, opts) ==
  /\ currentTimings.readyState >= 1
  /\ currentTimings.event # "loadedmetadata"
  /\ prevTimings.rebuffering = NULL
  /\ ~(\/ hasLoadedUntilTheEnd(currentTimings.currentRange, currentTimings.duration,
                               opts.lowLatencyMode)
       \/ currentTimings.ended)

shouldRebuffer_NoInfinity(prevTimings, currentTimings, opts) ==
  IF opts.withMediaSource
  THEN /\ canSwitchToRebuffering(prevTimings, currentTimings, opts)
       /\ currentTimings.bufferGap <= REBUFFERING_GAP(Suffix(opts.lowLatencyMode))
  ELSE /\ canSwitchToRebuffering(prevTimings, currentTimings, opts)
       /\ \/ (/\ ~currentTimings.paused
              /\ currentTimings.event = "timeupdate"
              /\ prevTimings.event = "timeupdate"
              /\ currentTimings.position = prevTimings.position)
          \/ (currentTimings.event = "seeking" /\ currentTimings.bufferGap = Infinity)

shouldRebuffer_IgnoresPaused(prevTimings, currentTimings, opts) ==
  IF opts.withMediaSource
  THEN /\ canSwitchToRebuffering(prevTimings, currentTimings, opts)
       /\ \/ currentTimings.bufferGap <= REBUFFERING_GAP(Suffix(opts.lowLatencyMode))
          \/ currentTimings.bufferGap = Infinity
  ELSE /\ canSwitchToRebuffering(prevTimings, currentTimings, opts)
       /\ \/ (/\ currentTimings.event = "timeupdate"
              /\ prevTimings.event = "timeupdate"
              /\ currentTimings.position = prevTimings.position)
          \/ (currentTimings.event = "seeking" /\ currentTimings.bufferGap = Infinity)

\* shouldRebuffer === true (lines 127-137 with a media source, 154-159 without).
shouldRebuffer(prevTimings, currentTimings, opts) ==
  IF opts.withMediaSource
  THEN /\ canSwitchToRebuffering(prevTimings, currentTimings, opts)
       /\ \/ currentTimings.bufferGap <= REBUFFERING_GAP(Suffix(opts.lowLatencyMode))
          \/ currentTimings.bufferGap = Infinity
  ELSE /\ canSwitchToRebuffering(prevTimings, currentTimings, opts)
       /\ \/ (/\ ~currentTimings.paused
              /\ currentTimings.event = "timeupdate"
              /\ prevTimings.event = "timeupdate"
              /\ currentTimings.position = prevTimings.position)
          \/ (currentTimings.event = "seeking" /\ currentTimings.bufferGap = Infinity)

shouldStopRebuffer_ReadyState1(prevTimings, currentTimings, opts) ==
  LET bufferGap == currentTimings.bufferGap
      fullyLoaded == hasLoadedUntilTheEnd(currentTimings.currentRange,
                                          currentTimings.duration, opts.lowLatencyMode)
      resumeGap == getRebufferingEndGap(prevTimings.rebuffering, opts.lowLatencyMode)
  IN IF opts.withMediaSource
     THEN /\ ~canSwitchToRebuffering(prevTimings, currentTimings, opts)
          /\ prevTimings.rebuffering # NULL
          /\ currentTimings.readyState >= 1
          /\ \/ fullyLoaded
             \/ currentTimings.ended
             \/ (bufferGap < Infinity /\ bufferGap > resumeGap)
     ELSE /\ ~shouldRebuffer(prevTimings, currentTimings, opts)
          /\ prevTimings.rebuffering # NULL
          /\ \/ (currentTimings.event # "seeking"
                   /\ currentTimings.position # prevTimings.position)
             \/ currentTimings.event = "canplay"
             \/ (bufferGap < Infinity
                   /\ (bufferGap > resumeGap \/ fullyLoaded \/ currentTimings.ended))

\* shouldStopRebuffer === true (lines 138-143 with a media source, 160-167 without).
shouldStopRebuffer(prevTimings, currentTimings, opts) ==
  LET bufferGap == currentTimings.bufferGap
      fullyLoaded == hasLoadedUntilTheEnd(currentTimings.currentRange,
                                          currentTimings.duration, opts.lowLatencyMode)
      resumeGap == getRebufferingEndGap(prevTimings.rebuffering, opts.lowLatencyMode)
  IN IF opts.withMediaSource
     THEN /\ ~canSwitchToRebuffering(prevTimings, currentTimings, opts)
          /\ prevTimings.rebuffering # NULL
          /\ currentTimings.readyState > 1
          /\ \/ fullyLoaded
             \/ currentTimings.ended
             \/ (bufferGap < Infinity /\ bufferGap > resumeGap)
     ELSE /\ ~shouldRebuffer(prevTimings, currentTimings, opts)
          /\ prevTimings.rebuffering # NULL
          /\ \/ (currentTimings.event # "seeking"
                   /\ currentTimings.position # prevTimings.position)
             \/ currentTimings.event = "canplay"
             \/ (bufferGap < Infinity
                   /\ (bufferGap > resumeGap \/ fullyLoaded \/ currentTimings.ended))

\* lines 169-195: null, or the rebuffering status with its reason.
getRebufferingStatus(prevTimings, currentTimings, opts) ==
  IF shouldStopRebuffer(prevTimings, currentTimings, opts) THEN NULL
  ELSE IF \/ shouldRebuffer(prevTimings, currentTimings, opts)
          \/ prevTimings.rebuffering # NULL
       THEN Some([reason |-> rebufferingReason(prevTimings.rebuffering, currentTimings)])
       ELSE NULL

\* rebufferEndPosition of getRebufferingStatus with a media source: the
\* `position` of the rebuffering status it returns.
rebufferEndPosition(prevTimings, currentTimings, opts) ==
  LET bufferGap == currentTimings.bufferGap
      currentTime == currentTimings.position
  IN IF ~opts.withMediaSource THEN NULL
     ELSE IF prevTimings.rebuffering = NULL
          THEN IF bufferGap <= REBUFFERING_GAP(Suffix(opts.lowLatencyMode))
               THEN Some(currentTime + bufferGap)
               ELSE IF bufferGap = Infinity THEN Some(currentTime) ELSE NULL
          ELSE IF bufferGap = Infinity THEN Some(currentTime)
               ELSE IF bufferGap <= getRebufferingEndGap(prevTimings.rebuffering,
                                                         opts.lowLatencyMode)
                    THEN Some(currentTime + bufferGap)
                    ELSE NULL

getFreezingStatus_NoBufferCheck(prevTimings, currentTimings) ==
  IF prevTimings.freezing
  THEN ~(\/ currentTimings.ended
         \/ currentTimings.paused
         \/ currentTimings.readyState = 0
         \/ currentTimings.playbackRate = 0
         \/ prevTimings.position # currentTimings.position)
  ELSE /\ currentTimings.event = "timeupdate"
       /\ ~currentTimings.ended
       /\ ~currentTimings.paused
       /\ currentTimings.readyState >= 1
       /\ currentTimings.playbackRate # 0
       /\ currentTimings.position = prevTimings.position

\* TRUE when the freezing status is an object, FALSE when it is null.
getFreezingStatus(prevTimings, currentTimings) ==
  IF prevTimings.freezing
  THEN ~(\/ currentTimings.ended
         \/ currentTimings.paused
         \/ currentTimings.readyState = 0
         \/ currentTimings.playbackRate = 0
         \/ prevTimings.position # currentTimings.position)
  ELSE /\ currentTimings.event = "timeupdate"
       /\ currentTimings.bufferGap > MINIMUM_BUFFER_AMOUNT_BEFORE_FREEZING
       /\ ~currentTimings.ended
       /\ ~currentTimings.paused
       /\ currentTimings.readyState >= 1
       /\ currentTimings.playbackRate # 0
       /\ currentTimings.position = prevTimings.position

rebufferingTimestamp_AlwaysNow(prevTimings, currentTimings, opts) ==
  IF getRebufferingStatus(prevTimings, currentTimings, opts) = NULL THEN NULL
  ELSE Some("now")

\* lines 187-193: the timestamp of the rebuffering status returned, NULL when
\* it is null: "previous" is prevRebuffering.timestamp and "now" the value of
\* performance.now() during the call.
rebufferingTimestamp(prevTimings, currentTimings, opts) ==
  LET status == getRebufferingStatus(prevTimings, currentTimings, opts)
  IN IF status = NULL THEN NULL
     ELSE IF /\ prevTimings.rebuffering # NULL
             /\ prevTimings.rebuffering[1].reason = status[1].reason
          THEN Some("previous")
          ELSE Some("now")

freezingTimestamp_AlwaysNow(prevTimings, currentTimings) ==
  IF getFreezingStatus(prevTimings, currentTimings) THEN Some("now") ELSE NULL

\* lines 216 and 225: the timestamp of the freezing status returned, NULL when
\* it is null: "previous" is the one of prevTimings.freezing, which is
\* returned as it is, and "now" the value of performance.now().
freezingTimestamp(prevTimings, currentTimings) ==
  IF ~getFreezingStatus(prevTimings, currentTimings) THEN NULL
  ELSE IF prevTimings.freezing THEN Some("previous") ELSE Some("now")

\* getCurrentClockTick: the timings of a tick (the fields kept in lastTimings).
\* tmpEvt is the event after the renaming of an internal seek.
getCurrentClockTick(tmpEvt) ==
  LET mediaTimings == getMediaInfos(mediaElement, tmpEvt)
      internalSeeking ==
        /\ mediaTimings.seeking
        /\ \/ tmpEvt = "internal-seeking"
           \/ (clock.lastTimings.internalSeeking /\ tmpEvt # "seeking")
  IN [event |-> tmpEvt,
      position |-> mediaTimings.position,
      rebuffering |-> getRebufferingStatus(clock.lastTimings, mediaTimings, options),
      freezing |-> getFreezingStatus(clock.lastTimings, mediaTimings),
      internalSeeking |-> internalSeeking]

MediaElements ==
  [currentTime : MediaTimes, buffered : MediaBuffered, duration : MediaDurations,
   ended : BOOLEAN, paused : BOOLEAN, playbackRate : MediaPlaybackRates,
   readyState : MediaReadyStates, seeking : BOOLEAN]

\* Number of calls of setCurrentTime.
MaxSeeks == 3

isInternalSeek_AnySeeking(event, internalSeekingComingCounter) == event = "seeking"

\* line 265: whether a media event is renamed "internal-seeking".
isInternalSeek(event, internalSeekingComingCounter) ==
  event = "seeking" /\ internalSeekingComingCounter > 0

\* The clock is subscribed: lastTimings is getMediaInfos(mediaElement, "init")
\* with null statuses (line 259). clock.setCurrentTimeCalls and
\* clock.internalSeeks are history variables: the number of calls of
\* setCurrentTime, and of "seeking" events renamed "internal-seeking".
InitClock ==
  /\ options \in [withMediaSource : BOOLEAN, lowLatencyMode : BOOLEAN]
  /\ \E duration \in MediaDurations :
       mediaElement = [currentTime |-> 0, buffered |-> <<>>, duration |-> duration,
                       ended |-> FALSE, paused |-> TRUE, playbackRate |-> 1,
                       readyState |-> 0, seeking |-> FALSE]
  /\ clock = [lastTimings |-> [event |-> "init", position |-> 0, rebuffering |-> NULL,
                               freezing |-> FALSE, internalSeeking |-> FALSE],
              internalSeekingComingCounter |-> 0,
              setCurrentTimeCalls |-> 0, internalSeeks |-> 0]
  /\ sampled = NULL

ClockOthersUnchanged == UNCHANGED <<ranges, abr, store, loader, push, rate, play, periodStream, estimator, segmentLoad, rangeOps, directfile, eme>>

\* The map callback of line 291 on a media event or an interval tick.
\* `sampled` is a history variable: after a tick, and until an attribute of
\* the media element changes, it holds the timings the tick started from
\* (prevTimings), so that the state shows the previous timings, the sampled
\* attributes (mediaElement) and the new timings (clock.lastTimings) together,
\* followed by the timestamps of the two statuses of the new timings, which
\* are told from the ones of the previous timings.
Tick(event) ==
  LET internal == isInternalSeek(event, clock.internalSeekingComingCounter)
      tmpEvt == IF internal THEN "internal-seeking" ELSE event
      mediaTimings == getMediaInfos(mediaElement, tmpEvt)
  IN /\ clock' = [clock EXCEPT
                    !.lastTimings = getCurrentClockTick(tmpEvt),
                    !.internalSeekingComingCounter = IF internal THEN @ - 1 ELSE @,
                    !.internalSeeks = IF internal THEN @ + 1 ELSE @]
     /\ sampled' = <<clock.lastTimings,
                     [rebuffering |-> rebufferingTimestamp(clock.lastTimings,
                                                           mediaTimings, options),
                      freezing |-> freezingTimestamp(clock.lastTimings, mediaTimings)]>>
     /\ UNCHANGED <<options, mediaElement>>
     /\ ClockOthersUnchanged

ClockTick == \E event \in ClockEvents : Tick(event)

\* The media element between two ticks: one attribute takes another value.
\* The state no longer shows an observation (sampled is reset).

\* currentTime moves (playback, or a seek).
MediaTimeChange ==
  /\ \E v \in MediaTimes \ {mediaElement.currentTime} :
       mediaElement' = [mediaElement EXCEPT !.currentTime = v]
  /\ sampled' = NULL
  /\ UNCHANGED <<options, clock>>
  /\ ClockOthersUnchanged

\* the buffered ranges change.
MediaBufferedChange ==
  /\ \E v \in MediaBuffered \ {mediaElement.buffered} :
       mediaElement' = [mediaElement EXCEPT !.buffered = v]
  /\ sampled' = NULL
  /\ UNCHANGED <<options, clock>>
  /\ ClockOthersUnchanged

\* ended changes.
MediaEndedChange ==
  /\ \E v \in BOOLEAN \ {mediaElement.ended} :
       mediaElement' = [mediaElement EXCEPT !.ended = v]
  /\ sampled' = NULL
  /\ UNCHANGED <<options, clock>>
  /\ ClockOthersUnchanged

\* paused changes.
MediaPausedChange ==
  /\ \E v \in BOOLEAN \ {mediaElement.paused} :
       mediaElement' = [mediaElement EXCEPT !.paused = v]
  /\ sampled' = NULL
  /\ UNCHANGED <<options, clock>>
  /\ ClockOthersUnchanged

\* playbackRate changes.
MediaRateChange ==
  /\ \E v \in MediaPlaybackRates \ {mediaElement.playbackRate} :
       mediaElement' = [mediaElement EXCEPT !.playbackRate = v]
  /\ sampled' = NULL
  /\ UNCHANGED <<options, clock>>
  /\ ClockOthersUnchanged

\* readyState changes.
MediaReadyStateChange ==
  /\ \E v \in MediaReadyStates \ {mediaElement.readyState} :
       mediaElement' = [mediaElement EXCEPT !.readyState = v]
  /\ sampled' = NULL
  /\ UNCHANGED <<options, clock>>
  /\ ClockOthersUnchanged

\* seeking changes.
MediaSeekingChange ==
  /\ \E v \in BOOLEAN \ {mediaElement.seeking} :
       mediaElement' = [mediaElement EXCEPT !.seeking = v]
  /\ sampled' = NULL
  /\ UNCHANGED <<options, clock>>
  /\ ClockOthersUnchanged

\* setCurrentTime(time) (lines 254-257).
SetCurrentTime ==
  /\ clock.setCurrentTimeCalls < MaxSeeks
  /\ \E time \in MediaTimes :
       mediaElement' = [mediaElement EXCEPT !.currentTime = time]
  /\ clock' = [clock EXCEPT !.internalSeekingComingCounter = @ + 1,
                            !.setCurrentTimeCalls = @ + 1]
  /\ sampled' = NULL
  /\ UNCHANGED options
  /\ ClockOthersUnchanged

\* Internal seeks: calls of setCurrentTime, media events and changes of the
\* `seeking` attribute.
NextSeek == SetCurrentTime \/ ClockTick \/ MediaSeekingChange

NextClock ==
  \/ ClockTick
  \/ MediaTimeChange
  \/ MediaBufferedChange
  \/ MediaEndedChange
  \/ MediaPausedChange
  \/ MediaRateChange
  \/ MediaReadyStateChange
  \/ MediaSeekingChange

(***************************************************************************)
(* Segment request store (src/unnamed/part_006).                           *)
(* A request object is named by the rank of its creation. store.requests   *)
(* is the `requests` Map (complete segment id -> request object, NULL when *)
(* the id is absent); store.objects holds every request object created so  *)
(* far (callers keep them after freeRequest) with the state of its         *)
(* subscription to the segment fetcher; store.lastCall describes the last  *)
(* createRequest call: its id, what the map held for it when called, the   *)
(* request returned, the state of that request object when it was returned *)
(* and whether segmentFetcher was called.                                  *)
(***************************************************************************)

\* Number of request objects created in one run.
MaxRequests == 3

SegmentIds == {"s1", "s2"}

InitStore ==
  store = [requests |-> [id \in SegmentIds |-> NULL],
           objects |-> <<>>,
           lastCall |-> NULL]

StoreOthersUnchanged ==
  UNCHANGED <<ranges, abr, options, mediaElement, clock, sampled, loader, push, rate, play, periodStream, estimator, segmentLoad, rangeOps, directfile, eme>>

\* request.cancel(): subscription.unsubscribe() (line 20).
cancel(objects, h) == [objects EXCEPT ![h].subscription = "closed"]

\* lines 15-18: the stored request, when there is one.
lastRequest_Ignored(requests, completeSegmentId) == NULL

lastRequest(requests, completeSegmentId) == requests[completeSegmentId]

\* createRequest (lines 13-42).
createRequest(completeSegmentId) ==
  LET last == lastRequest(store.requests, completeSegmentId)
      h == Len(store.objects) + 1
  IN /\ IF last # NULL
        THEN store' = [store EXCEPT !.lastCall =
                         Some([id |-> completeSegmentId,
                               stored |-> store.requests[completeSegmentId],
                               returned |-> last[1],
                               object |-> store.objects[last[1]],
                               fetcherCalled |-> FALSE])]
        ELSE /\ h <= MaxRequests
             /\ store' = [requests |-> [store.requests EXCEPT
                                          ![completeSegmentId] = Some(h)],
                          objects |-> Append(store.objects,
                                             [id |-> completeSegmentId,
                                              subscription |-> "active",
                                              data |-> FALSE, error |-> FALSE]),
                          lastCall |-> Some([id |-> completeSegmentId,
                                             stored |-> store.requests[completeSegmentId],
                                             returned |-> h,
                                             object |-> [id |-> completeSegmentId,
                                                         subscription |-> "active",
                                                         data |-> FALSE, error |-> FALSE],
                                             fetcherCalled |-> TRUE])]
     /\ StoreOthersUnchanged

CreateRequest == \E id \in SegmentIds : createRequest(id)

\* A caller cancels a request object it holds (line 20); the object stays in
\* the map.
RequestCancel ==
  /\ \E h \in 1..Len(store.objects) :
       store' = [store EXCEPT !.objects = cancel(store.objects, h)]
  /\ StoreOthersUnchanged

freeRequestObjects_NoCancel(objects, h) == objects

\* freeRequest, line 52.
freeRequestObjects(objects, h) == cancel(objects, h)

\* freeRequest (lines 49-55).
freeRequest(segmentId) ==
  LET request == store.requests[segmentId]
  IN /\ IF request # NULL
        THEN store' = [store EXCEPT
                         !.objects = freeRequestObjects(store.objects, request[1]),
                         !.requests[segmentId] = NULL]
        ELSE UNCHANGED store
     /\ StoreOthersUnchanged

FreeRequest == \E id \in SegmentIds : freeRequest(id)

\* The segment fetcher emits a first "chunk" event to a live subscription:
\* the subscriber stores the parsed data and take(1) completes (lines 25-39).
FetcherChunk ==
  /\ \E h \in 1..Len(store.objects) :
       /\ store.objects[h].subscription = "active"
       /\ store' = [store EXCEPT !.objects[h].data = TRUE,
                                 !.objects[h].subscription = "closed"]
  /\ StoreOthersUnchanged

\* The segment fetcher errors: catchError stores the error and completes
\* with EMPTY (lines 27-32).
FetcherError ==
  /\ \E h \in 1..Len(store.objects) :
       /\ store.objects[h].subscription = "active"
       /\ store' = [store EXCEPT !.objects[h].error = TRUE,
                                 !.objects[h].subscription = "closed"]
  /\ StoreOthersUnchanged

NextStore ==
  \/ CreateRequest
  \/ RequestCancel
  \/ FreeRequest
  \/ FetcherChunk
  \/ FetcherError

(***************************************************************************)
(* Custom segment loader wrapper (src/unnamed/part_013, segmentLoader).    *)
(* One call of segmentLoader with a non-null url, a custom segment loader  *)
(* and no low-latency mode (the Promise of lines 180-306). The custom      *)
(* loader and the owner of the cancel signal are the environment: the      *)
(* loader may call any of its four callbacks at any time from the moment   *)
(* it is called (line 288), any number of times; the signal may be         *)
(* cancelled while the loader is being called (by code the loader runs)    *)
(* or later. loader.first and loader.effect are history variables: the     *)
(* first of resolve, reject, fallback and the cancellation that happened,  *)
(* and the one that got past its guard. loader.settleCalls counts the      *)
(* calls of res and rej, loader.abortCalls those of the abort function the *)
(* custom loader returned, and loader.regularSignal is the signal the      *)
(* regular loader was given.                                               *)
(***************************************************************************)

\* Number of callback calls the custom loader makes in one run.
MaxCalls == 3

\* Number of progress reports of the regular loader in one run.
MaxProgress == 2

InitLoader ==
  loader = [phase |-> "idle",        \* "idle", "calling" (inside line 288), "registered"
            hasFinished |-> FALSE,
            cancelled |-> FALSE,     \* cancelSignal.isCancelled()
            listener |-> FALSE,      \* abortCustomLoader is registered on the signal
            promise |-> "pending",   \* state of the returned Promise
            onProgress |-> 0,        \* calls of callbacks.onProgress
            regular |-> "none",      \* the regularSegmentLoader call of fallback
            aborted |-> FALSE,       \* abort() of the custom loader was called
            calls |-> 0,             \* callback calls made by the custom loader
            lateCalls |-> 0,         \* those made after the signal was cancelled
            first |-> NULL, effect |-> NULL, settleCalls |-> 0, abortCalls |-> 0,
            regularSignal |-> NULL]

LoaderOthersUnchanged ==
  UNCHANGED <<ranges, abr, options, mediaElement, clock, sampled, store, push, rate, play, periodStream, estimator, segmentLoad, rangeOps, directfile, eme>>

\* res(...) / rej(...) of the Promise: only the first settlement counts.
settle(l, outcome) ==
  [l EXCEPT !.promise = IF @ = "pending" THEN outcome ELSE @,
            !.settleCalls = @ + 1]

\* One of resolve, reject, fallback and the cancellation happens.
attempted(l, outcome) == [l EXCEPT !.first = IF @ = NULL THEN Some(outcome) ELSE @]

\* The custom loader calls one of its callbacks.
called(l) ==
  [l EXCEPT !.calls = l.calls + 1,
            !.lateCalls = IF l.cancelled THEN l.lateCalls + 1 ELSE l.lateCalls]

callbackIgnored_FinishedOnly(l) == l.hasFinished

\* The guard of the four callbacks (lines 193, 213, 241, 256).
callbackIgnored(l) == l.hasFinished \/ l.cancelled

\* lines 188-206.
resolve(l) ==
  IF callbackIgnored(l) THEN l
  ELSE settle([l EXCEPT !.hasFinished = TRUE, !.listener = FALSE,
                        !.effect = Some("resolve")], "segment-loaded")

\* lines 212-234.
reject(l) ==
  IF callbackIgnored(l) THEN l
  ELSE settle([l EXCEPT !.hasFinished = TRUE, !.listener = FALSE,
                        !.effect = Some("reject")], "rejected")

\* lines 236-249.
progress(l) ==
  IF callbackIgnored(l) THEN l
  ELSE [l EXCEPT !.onProgress = l.onProgress + 1]

\* lines 255-269.
fallback(l) ==
  IF callbackIgnored(l) THEN l
  ELSE [l EXCEPT !.hasFinished = TRUE, !.listener = FALSE, !.regular = "pending",
                 !.effect = Some("fallback"), !.regularSignal = Some("cancelSignal")]

abortCustomLoader_EvenFinished(l) ==
  settle([l EXCEPT !.hasFinished = TRUE, !.aborted = TRUE, !.abortCalls = @ + 1,
                   !.effect = Some("cancel")], "rejected")

\* lines 296-305.
abortCustomLoader(l) ==
  IF l.hasFinished THEN l
  ELSE settle([l EXCEPT !.hasFinished = TRUE, !.aborted = TRUE, !.abortCalls = @ + 1,
                        !.effect = Some("cancel")], "rejected")

\* cancelSignal.register(abortCustomLoader), line 290: cancellations are
\* propagated, so a listener registered on a signal that is cancelled
\* already is called at once.
register(l) ==
  IF l.cancelled THEN abortCustomLoader([l EXCEPT !.listener = TRUE])
  ELSE [l EXCEPT !.listener = TRUE]

\* segmentLoader reaches line 288 and calls the custom loader.
SegmentLoaderStart ==
  /\ loader.phase = "idle"
  /\ loader' = [loader EXCEPT !.phase = "calling"]
  /\ LoaderOthersUnchanged

\* The custom loader may call a callback: it has been called, and has calls
\* left in this run.
CallbackCallable == loader.phase # "idle" /\ loader.calls < MaxCalls

CustomResolve ==
  /\ CallbackCallable
  /\ loader' = resolve(attempted(called(loader), "resolve"))
  /\ LoaderOthersUnchanged

CustomReject ==
  /\ CallbackCallable
  /\ loader' = reject(attempted(called(loader), "reject"))
  /\ LoaderOthersUnchanged

CustomProgress ==
  /\ CallbackCallable
  /\ loader' = progress(called(loader))
  /\ LoaderOthersUnchanged

CustomFallback ==
  /\ CallbackCallable
  /\ loader' = fallback(attempted(called(loader), "fallback"))
  /\ LoaderOthersUnchanged

\* The custom loader returns and line 290 registers abortCustomLoader.
RegisterAbort ==
  /\ loader.phase = "calling"
  /\ loader' = register([loader EXCEPT !.phase = "registered"])
  /\ LoaderOthersUnchanged

\* The cancel signal fires: its registered listeners are called.
CancelSignal ==
  /\ loader.phase # "idle"
  /\ ~loader.cancelled
  /\ loader' = IF loader.listener
               THEN abortCustomLoader(attempted([loader EXCEPT !.cancelled = TRUE], "cancel"))
               ELSE attempted([loader EXCEPT !.cancelled = TRUE], "cancel")
  /\ LoaderOthersUnchanged

\* The regular loader started by fallback reports progress (callbacks is
\* handed to it, line 266).
RegularProgress ==
  /\ loader.regular = "pending"
  /\ loader.onProgress < MaxProgress
  /\ loader' = [loader EXCEPT !.onProgress = loader.onProgress + 1]
  /\ LoaderOthersUnchanged

\* The regular loader started by fallback settles: .then(res, rej), line 268.
RegularSettle ==
  /\ loader.regular = "pending"
  /\ \E outcome \in {"segment-loaded", "rejected"} :
       loader' = settle([loader EXCEPT !.regular = "settled"], outcome)
  /\ LoaderOthersUnchanged

NextLoader ==
  \/ SegmentLoaderStart
  \/ CustomResolve
  \/ CustomReject
  \/ CustomProgress
  \/ CustomFallback
  \/ RegisterAbort
  \/ CancelSignal
  \/ RegularProgress
  \/ RegularSettle

(***************************************************************************)
(* Path selection of segmentLoader (src/unnamed/part_013, lines 51-178).    *)
(* One call of segmentLoader. Its inputs are whether constructSegmentUrl    *)
(* returns null, whether a custom segment loader is configured,             *)
(* lowLatencyMode, segment.isInit, what inferSegmentContainer returns and   *)
(* what fetchIsSupported returns. The model counts the calls of the custom  *)
(* loader, of initSegmentLoader, of loadChunkedSegmentData and of request,  *)
(* and the calls of regularSegmentLoader itself. The custom loader is the   *)
(* environment: it resolves, or asks for the regular implementation.        *)
(***************************************************************************)

\* What inferSegmentContainer returns ("undefined" for undefined).
ContainerTypes == {"mp4", "webm", "undefined"}

SegmentLoaderInputs ==
  [urlIsNull : BOOLEAN, customSegmentLoader : BOOLEAN, lowLatencyMode : BOOLEAN,
   isInit : BOOLEAN, containerType : ContainerTypes, fetchIsSupported : BOOLEAN]

InitSegmentLoad ==
  \E inputs \in SegmentLoaderInputs :
    segmentLoad = [inputs |-> inputs,
                   phase |-> "idle",       \* "idle", "custom" (custom loader pending), "done"
                   result |-> NULL,        \* resultType of an immediate result
                   customCalls |-> 0,      \* calls of customSegmentLoader
                   regularCalls |-> 0,     \* calls of regularSegmentLoader
                   initCalls |-> 0,        \* calls of initSegmentLoader
                   chunkedCalls |-> 0,     \* calls of loadChunkedSegmentData
                   requests |-> 0,         \* calls of request
                   warned |-> FALSE]       \* warnOnce was called

SegmentLoadOthersUnchanged ==
  UNCHANGED <<ranges, abr, options, mediaElement, clock, sampled, store, loader, push,
              rate, play, periodStream, estimator, rangeOps, directfile, eme>>

canBeChunked_AnyContainer(inputs) == inputs.lowLatencyMode

\* line 93: the test guarding the chunked streaming loader.
canBeChunked(inputs) ==
  inputs.lowLatencyMode /\ inputs.containerType \in {"mp4", "undefined"}

\* regularSegmentLoader (lines 51-123).
regularSegmentLoader(s) ==
  LET entered == [s EXCEPT !.regularCalls = s.regularCalls + 1, !.phase = "done"]
  IN IF s.inputs.isInit
       THEN [entered EXCEPT !.initCalls = s.initCalls + 1]
     ELSE IF canBeChunked(s.inputs)
       THEN IF s.inputs.fetchIsSupported
              THEN [entered EXCEPT !.chunkedCalls = s.chunkedCalls + 1]
              ELSE [entered EXCEPT !.warned = TRUE, !.requests = s.requests + 1]
     ELSE [entered EXCEPT !.requests = s.requests + 1]

\* line 169, negated: the custom segment loader is the one called.
usesCustomLoader(inputs) == ~(inputs.lowLatencyMode \/ ~inputs.customSegmentLoader)

\* segmentLoader (lines 150-180, and the call of line 288).
segmentLoader(s) ==
  IF s.inputs.urlIsNull
    THEN [s EXCEPT !.result = Some("segment-created"), !.phase = "done"]
  ELSE IF ~usesCustomLoader(s.inputs)
    THEN regularSegmentLoader(s)
  ELSE [s EXCEPT !.customCalls = s.customCalls + 1, !.phase = "custom"]

SegmentLoaderCall ==
  /\ segmentLoad.phase = "idle"
  /\ segmentLoad' = segmentLoader(segmentLoad)
  /\ SegmentLoadOthersUnchanged

\* The custom loader calls its resolve callback (lines 188-206).
CustomLoaderResolve ==
  /\ segmentLoad.phase = "custom"
  /\ segmentLoad' = [segmentLoad EXCEPT !.result = Some("segment-loaded"),
                                        !.phase = "done"]
  /\ SegmentLoadOthersUnchanged

\* The custom loader calls its fallback callback (lines 255-269).
CustomLoaderFallback ==
  /\ segmentLoad.phase = "custom"
  /\ segmentLoad' = regularSegmentLoader(segmentLoad)
  /\ SegmentLoadOthersUnchanged

NextSegmentLoad == SegmentLoaderCall \/ CustomLoaderResolve \/ CustomLoaderFallback

(***************************************************************************)
(* loadAndPushSegment (src/unnamed/part_011).                              *)
(* One call of loadAndPushSegment for one segment. The segment fetcher and *)
(* the source buffer are the environment: while the fetch is pending the   *)
(* fetcher calls onChunk any number of times, then its promise resolves or *)
(* rejects (a cancelled fetch rejects). push.delivered is the sequence of  *)
(* chunks (the value of parseChunk) handed to onChunk, push.appended the   *)
(* sequence of appendBuffer calls received by the source buffer,           *)
(* push.appendStates the state of the promise each of them returned, and   *)
(* push.pushOperations the array of line 38: the rank of the appendBuffer  *)
(* call whose promise the entry is, or NULL for Promise.resolve(null).     *)
(***************************************************************************)

\* Number of chunks the segment fetcher delivers for the segment.
MaxChunks == 3

\* segmentInfo.period (start and end, in seconds).
Periods == {[start |-> 0, end |-> 20], [start |-> 10, end |-> 30]}

ChunkOffsets == {0, 7}

\* What parseChunk returns. `data` is initializationData for an init
\* segment and chunkData for a media segment: NULL, or the rank of the chunk
\* (so that two chunks never carry the same data).
ParsedChunks(rank) ==
  [segmentType : {"init", "media"}, data : {NULL, Some(rank)}, chunkOffset : ChunkOffsets]

InitPush ==
  \E period \in Periods :
  push = [period |-> period,
          fetch |-> "idle",          \* "idle", "pending", "resolved", "rejected"
          cancelled |-> FALSE,       \* the cancelSignal handed to the fetcher
          delivered |-> <<>>,
          appended |-> <<>>,
          appendStates |-> <<>>,     \* "pending", "resolved" or "rejected"
          pushOperations |-> <<>>,
          result |-> "none"]         \* the returned promise: "none" (fetch pending),
                                     \* "waiting" (Promise.all), "resolved", "rejected"

PushOthersUnchanged ==
  UNCHANGED <<ranges, abr, options, mediaElement, clock, sampled, store, loader, rate, play, periodStream, estimator, segmentLoad, rangeOps, directfile, eme>>

timestampOffset_AlwaysChunkOffset(parsed) == parsed.chunkOffset

\* lines 47-53.
timestampOffset(parsed) ==
  IF parsed.segmentType = "init" THEN 0 ELSE parsed.chunkOffset

\* The appendBuffer call of lines 58-62.
appendBufferCall(period, parsed) ==
  [data |-> parsed.data,
   appendWindow |-> <<period.start, period.end>>,
   timestampOffset |-> timestampOffset(parsed)]

pushesData_Always(parsed) == TRUE

\* line 55: the chunk carries data.
pushesData(parsed) == parsed.data # NULL

appendTo_Front(appended, call) == <<call>> \o appended

\* sourceBufferInterface.appendBuffer: the source buffer receives the call
\* after the ones already made.
appendTo(appended, call) == Append(appended, call)

onChunk_ForgetsOperation(p, parsed) ==
  IF pushesData(parsed)
  THEN [p EXCEPT !.delivered = Append(p.delivered, parsed),
                 !.appended = appendTo(p.appended, appendBufferCall(p.period, parsed)),
                 !.appendStates = Append(p.appendStates, "pending")]
  ELSE [p EXCEPT !.delivered = Append(p.delivered, parsed),
                 !.pushOperations = Append(p.pushOperations, NULL)]

\* onChunk (lines 42-65).
onChunk(p, parsed) ==
  IF pushesData(parsed)
  THEN [p EXCEPT !.delivered = Append(p.delivered, parsed),
                 !.appended = appendTo(p.appended, appendBufferCall(p.period, parsed)),
                 !.appendStates = Append(p.appendStates, "pending"),
                 !.pushOperations = Append(p.pushOperations, Some(Len(p.appended) + 1))]
  ELSE [p EXCEPT !.delivered = Append(p.delivered, parsed),
                 !.pushOperations = Append(p.pushOperations, NULL)]

\* The state of the promise Promise.all(pushOperations) returned (line 74).
promiseAll(p) ==
  LET stateOf(op) == IF op = NULL THEN "resolved" ELSE p.appendStates[op[1]]
      ops == 1..Len(p.pushOperations)
  IN IF \E i \in ops : stateOf(p.pushOperations[i]) = "rejected" THEN "rejected"
     ELSE IF \A i \in ops : stateOf(p.pushOperations[i]) = "resolved" THEN "resolved"
     ELSE "waiting"

\* A promise of pushOperations settles: the returned promise follows
\* Promise.all once the fetch has resolved (line 74).
onPushOperationSettled(p) ==
  IF p.result = "waiting" THEN [p EXCEPT !.result = promiseAll(p)] ELSE p

\* loadAndPushSegment calls segmentFetcher (line 39).
LoadAndPushStart ==
  /\ push.fetch = "idle"
  /\ push' = [push EXCEPT !.fetch = "pending"]
  /\ PushOthersUnchanged

\* The segment fetcher calls onChunk with the next chunk.
FetcherOnChunk ==
  /\ push.fetch = "pending"
  /\ ~push.cancelled
  /\ Len(push.delivered) < MaxChunks
  /\ \E parsed \in ParsedChunks(Len(push.delivered) + 1) : push' = onChunk(push, parsed)
  /\ PushOthersUnchanged

\* The fetch promise resolves: .then(() => Promise.all(pushOperations)), line 74.
FetchResolved ==
  /\ push.fetch = "pending"
  /\ ~push.cancelled
  /\ push' = [push EXCEPT !.fetch = "resolved", !.result = promiseAll(push)]
  /\ PushOthersUnchanged

\* The fetch promise rejects (request error, or cancellation): the returned
\* promise rejects with it, `then` having no rejection handler.
FetchRejected ==
  /\ push.fetch = "pending"
  /\ push' = [push EXCEPT !.fetch = "rejected", !.result = "rejected"]
  /\ PushOthersUnchanged

\* The caller cancels the signal handed to the segment fetcher (line 73).
PushCancel ==
  /\ push.fetch = "pending"
  /\ ~push.cancelled
  /\ push' = [push EXCEPT !.cancelled = TRUE]
  /\ PushOthersUnchanged

\* The source buffer is done with an appendBuffer call: its promise resolves.
AppendResolved ==
  /\ \E k \in 1..Len(push.appendStates) :
       /\ push.appendStates[k] = "pending"
       /\ push' = onPushOperationSettled([push EXCEPT !.appendStates[k] = "resolved"])
  /\ PushOthersUnchanged

\* The source buffer fails an appendBuffer call: its promise rejects.
AppendRejected ==
  /\ \E k \in 1..Len(push.appendStates) :
       /\ push.appendStates[k] = "pending"
       /\ push' = onPushOperationSettled([push EXCEPT !.appendStates[k] = "rejected"])
  /\ PushOthersUnchanged

NextPush ==
  \/ LoadAndPushStart
  \/ FetcherOnChunk
  \/ FetchResolved
  \/ FetchRejected
  \/ PushCancel
  \/ AppendResolved
  \/ AppendRejected

(***************************************************************************)
(* Playback rate (update_playback_rate.js, updatePlaybackRate).            *)
(* rate.speed is the value of the `speed` reference, set by the user.      *)
(* rate.forcePause is the last value let through by distinctUntilChanged   *)
(* (NULL before the subscription); while it is FALSE the pipeline is       *)
(* subscribed to the speed. rate.observation is the last observation.      *)
(* rate.writes is a history variable: the values assigned to               *)
(* mediaElement.playbackRate by updatePlaybackRate, in order.              *)
(***************************************************************************)

\* Number of assignments of mediaElement.playbackRate that are followed.
MaxRateWrites == 4

\* Speeds the user may set.
Speeds == {1, 2, 3}

\* The `rebuffering` property of an observation.
RateObservations ==
  [rebuffering : {NULL, Some([reason |-> "seeking"]), Some([reason |-> "buffering"])}]

shouldForcePause_SeekingOnly(observation) ==
  observation.rebuffering # NULL /\ observation.rebuffering[1].reason = "seeking"

\* line 30: the map callback of forcePause$.
shouldForcePause(observation) == observation.rebuffering # NULL

\* speed.asObservable() (utils/reference): what it emits when subscribed to,
\* the current value of the reference; later values are emitted as they are
\* set.
asObservable(speed) == Some(speed)

InitRate ==
  rate = [subscribed |-> FALSE, speed |-> 1, forcePause |-> NULL,
          observation |-> NULL, writes |-> <<>>]

RateOthersUnchanged ==
  UNCHANGED <<ranges, abr, options, clock, sampled, store, loader, push, play, periodStream, estimator, segmentLoad, rangeOps, directfile, eme>>

\* The switchMap callback of lines 33-45 for a value of forcePause$: the
\* playback rate it assigns at once (NULL: none).
playbackRateOnSwitch(shouldForcePauseValue, speed) ==
  IF shouldForcePauseValue THEN Some(0) ELSE asObservable(speed)

\* The returned Observable is subscribed to: startWith(false) goes through
\* switchMap, which subscribes to the speed.
UpdatePlaybackRate ==
  /\ ~rate.subscribed
  /\ LET assigned == playbackRateOnSwitch(FALSE, rate.speed)
     IN /\ rate' = [rate EXCEPT !.subscribed = TRUE,
                                !.forcePause = Some(FALSE),
                                !.writes = IF assigned = NULL THEN @ ELSE Append(@, assigned[1])]
        /\ mediaElement' = [mediaElement EXCEPT
                              !.playbackRate = IF assigned = NULL THEN @ ELSE assigned[1]]
  /\ RateOthersUnchanged

\* observation$ emits: distinctUntilChanged lets the value of
\* shouldForcePause through when it differs from the last one, and switchMap
\* replaces the inner subscription.
RateObservation ==
  /\ rate.subscribed
  /\ Len(rate.writes) < MaxRateWrites
  /\ \E observation \in RateObservations :
       LET value == shouldForcePause(observation)
           assigned == IF Some(value) = rate.forcePause THEN NULL
                       ELSE playbackRateOnSwitch(value, rate.speed)
       IN /\ rate' = [rate EXCEPT !.forcePause = Some(value),
                                  !.observation = Some(observation),
                                  !.writes = IF assigned = NULL THEN @
                                             ELSE Append(@, assigned[1])]
          /\ mediaElement' = [mediaElement EXCEPT
                                !.playbackRate = IF assigned = NULL THEN @ ELSE assigned[1]]
  /\ RateOthersUnchanged

\* The user sets another speed: the tap of lines 41-44 runs when the pipeline
\* is subscribed to the speed.
SetSpeed ==
  /\ Len(rate.writes) < MaxRateWrites
  /\ \E lastSpeed \in Speeds \ {rate.speed} :
       LET listening == rate.subscribed /\ rate.forcePause = Some(FALSE)
       IN /\ rate' = [rate EXCEPT !.speed = lastSpeed,
                                  !.writes = IF listening THEN Append(@, lastSpeed) ELSE @]
          /\ mediaElement' = [mediaElement EXCEPT
                                !.playbackRate = IF listening THEN lastSpeed ELSE @]
  /\ RateOthersUnchanged

NextRate == UpdatePlaybackRate \/ RateObservation \/ SetSpeed

(***************************************************************************)
(* Initial seek and play (src/src/core/eme/eme_manager.ts,                 *)
(* performInitialSeekAndPlay). One call is followed. play.phase is the     *)
(* listener that is registered on the playback observer, or "playing"      *)
(* while the promise of mediaElement.play() is pending. The playback       *)
(* observer, the media element (`ended`, the outcome of play()) and the    *)
(* warning handler are the environment. play.observation is the last       *)
(* observation of the playback observer. play.ended and play.playError are *)
(* history variables: what onPlayable read and what play() failed with.    *)
(* play.afterSeek tells whether play.observation was emitted after          *)
(* setCurrentTime was called, and play.playableOn is a history variable:    *)
(* the observation that made waitForPlayable call onPlayable, with its      *)
(* afterSeek.                                                               *)
(***************************************************************************)

\* The properties of an observation that the listeners read.
PlayObservations ==
  [seeking : {"None", "Internal", "External"}, rebuffering : BOOLEAN, readyState : {0, 1}]

\* Names of the errors mediaElement.play() may fail with.
PlayErrorNames == {"NotAllowedError", "AbortError"}

InitPlay ==
  play = [phase |-> "idle", mustAutoPlay |-> FALSE, isDirectfile |-> FALSE,
          startTimeIsNumber |-> TRUE, observation |-> NULL, cancelled |-> FALSE,
          registered |-> FALSE, initialPlayPerformed |-> FALSE,
          autoPlayResult |-> NULL, warnings |-> <<>>, playCalls |-> 0,
          setCurrentTimeCalls |-> 0, ended |-> NULL, playError |-> NULL,
          afterSeek |-> FALSE, playableOn |-> NULL]

PlayOthersUnchanged ==
  UNCHANGED <<ranges, abr, options, mediaElement, clock, sampled, store, loader, push, rate, periodStream, estimator, segmentLoad, rangeOps, directfile, eme>>

\* resolveAutoPlay / rejectAutoPlay: a promise settles once.
resolveAutoPlay(p, type) ==
  IF p.autoPlayResult # NULL THEN p
  ELSE [p EXCEPT !.autoPlayResult = Some([status |-> "resolved", value |-> type])]

rejectAutoPlay(p, err) ==
  IF p.autoPlayResult # NULL THEN p
  ELSE [p EXCEPT !.autoPlayResult = Some([status |-> "rejected", value |-> err])]

\* The cancelSignal is cancelled: the listeners are cleared (clearSignal) and
\* the callback registered at line 305, if still registered, rejects.
cancelled(p) ==
  IF p.cancelled THEN p
  ELSE LET q == [p EXCEPT !.cancelled = TRUE]
       IN IF p.registered THEN rejectAutoPlay(q, "CancellationError") ELSE q

\* onWarning(error); the handler may cancel the signal.
onWarning(p, code, cancels) ==
  LET q == [p EXCEPT !.warnings = Append(@, code)]
  IN IF cancels THEN cancelled(q) ELSE q

skipsPlay_IgnoresEnded(mustAutoPlay, ended) == ~mustAutoPlay

\* lines 364 and 373: the two cases where onPlayable does not call play().
skipsPlay(mustAutoPlay, ended) == ~mustAutoPlay \/ ended

\* lines 362-391: onPlayable up to the call of play().
onPlayable(p, ended, playThrows) ==
  LET q == [p EXCEPT !.ended = Some(ended)]
  IN IF skipsPlay(p.mustAutoPlay, ended)
     THEN resolveAutoPlay([q EXCEPT !.initialPlayPerformed = TRUE,
                                    !.registered = FALSE,
                                    !.phase = "done"],
                          "skipped")
     ELSE IF playThrows
          THEN rejectAutoPlay([q EXCEPT !.playCalls = @ + 1,
                                        !.playError = Some("AbortError"),
                                        !.registered = FALSE,
                                        !.phase = "done"],
                              "AbortError")
          ELSE [q EXCEPT !.playCalls = @ + 1, !.phase = "playing"]

isPlayable_IgnoresRebuffering(observation) ==
  observation.seeking = "None" /\ observation.readyState >= 1

\* lines 345-347: the test of the listener of waitForPlayable.
isPlayable(observation) ==
  /\ observation.seeking = "None"
  /\ ~observation.rebuffering
  /\ observation.readyState >= 1

\* lines 343-354: the listener of waitForPlayable.
waitForPlayable(p, observation, ended, playThrows) ==
  IF isPlayable(observation)
  THEN onPlayable([p EXCEPT !.playableOn = Some([observation |-> observation,
                                                 afterSeek |-> p.afterSeek])],
                  ended, playThrows)
  ELSE [p EXCEPT !.phase = "waitForPlayable"]

\* lines 317-334: the listener of waitForSeekable. waitForPlayable listens
\* with includeLastObservation, so its listener runs at once with the same
\* observation.
waitForSeekable(p, observation, falselyLoaded, cancels, ended, playThrows) ==
  IF observation.seeking = "None" \/ observation.readyState = 0
  THEN [p EXCEPT !.phase = "waitForSeekable"]
  ELSE LET q == IF falselyLoaded
                THEN onWarning(p, "MEDIA_ERR_NOT_LOADED_METADATA", cancels)
                ELSE p
       IN IF q.cancelled THEN [q EXCEPT !.phase = "done"]
          ELSE waitForPlayable(q, observation, ended, playThrows)

\* lines 294-303: the listener that waits for the metadata of a directfile
\* content whose startTime is a function.
waitForReadyState(p, observation, falselyLoaded, cancels, ended, playThrows) ==
  IF observation.readyState >= 1
  THEN waitForSeekable([p EXCEPT !.setCurrentTimeCalls = @ + 1],
                       observation, falselyLoaded, cancels, ended, playThrows)
  ELSE [p EXCEPT !.phase = "waitForReadyState"]

\* performInitialSeekAndPlay is called (lines 262-307). `observation` is the
\* last observation of the playback observer, which every listener receives
\* at once (includeLastObservation). The warning handler does not cancel
\* during the call.
PerformInitialSeekAndPlay ==
  /\ play.phase = "idle"
  /\ \E mustAutoPlay \in BOOLEAN, isDirectfile \in BOOLEAN,
        startTimeIsNumber \in BOOLEAN,
        observation \in PlayObservations, falselyLoaded \in BOOLEAN,
        ended \in BOOLEAN, playThrows \in BOOLEAN :
       LET p == [play EXCEPT !.mustAutoPlay = mustAutoPlay,
                             !.isDirectfile = isDirectfile,
                             !.startTimeIsNumber = startTimeIsNumber,
                             !.observation = Some(observation)]
           q == IF ~isDirectfile \/ startTimeIsNumber
                THEN waitForSeekable([p EXCEPT !.setCurrentTimeCalls = @ + 1],
                                     observation, falselyLoaded, FALSE, ended, playThrows)
                ELSE waitForReadyState(p, observation, falselyLoaded, FALSE,
                                       ended, playThrows)
       IN play' = [q EXCEPT !.registered = TRUE]
  /\ PlayOthersUnchanged

\* The playback observer emits an observation to the registered listener.
PlayObservation ==
  /\ ~play.cancelled
  /\ play.phase \in {"waitForReadyState", "waitForSeekable", "waitForPlayable"}
  /\ \E observation \in PlayObservations, falselyLoaded \in BOOLEAN,
        cancels \in BOOLEAN, ended \in BOOLEAN, playThrows \in BOOLEAN :
       LET p == [play EXCEPT !.observation = Some(observation),
                             !.afterSeek = play.setCurrentTimeCalls > 0]
       IN play' = CASE play.phase = "waitForReadyState" ->
                         waitForReadyState(p, observation, falselyLoaded, cancels,
                                           ended, playThrows)
                    [] play.phase = "waitForSeekable" ->
                         waitForSeekable(p, observation, falselyLoaded, cancels,
                                         ended, playThrows)
                    [] play.phase = "waitForPlayable" ->
                         waitForPlayable(p, observation, ended, playThrows)
  /\ PlayOthersUnchanged

\* lines 393-401: the promise of play() resolves.
PlayResolved ==
  /\ play.phase = "playing"
  /\ play' = IF play.cancelled THEN [play EXCEPT !.phase = "done"]
             ELSE resolveAutoPlay([play EXCEPT !.initialPlayPerformed = TRUE,
                                               !.registered = FALSE,
                                               !.phase = "done"],
                                  "autoplay")
  /\ PlayOthersUnchanged

\* lines 402-423: the promise of play() is rejected.
PlayRejected ==
  /\ play.phase = "playing"
  /\ \E name \in PlayErrorNames, cancels \in BOOLEAN :
       LET p == [play EXCEPT !.registered = FALSE, !.phase = "done",
                             !.playError = Some(name)]
       IN play' =
            IF p.cancelled THEN p
            ELSE IF name = "NotAllowedError"
                 THEN LET q == onWarning(p, "MEDIA_ERR_BLOCKED_AUTOPLAY", cancels)
                      IN IF q.cancelled THEN q
                         ELSE resolveAutoPlay(q, "autoplay-blocked")
                 ELSE rejectAutoPlay(p, name)
  /\ PlayOthersUnchanged

\* The cancelSignal is cancelled by the caller.
PlayCancel ==
  /\ play.phase \notin {"idle", "done"}
  /\ ~play.cancelled
  /\ play' = cancelled(play)
  /\ PlayOthersUnchanged

NextPlay ==
  \/ PerformInitialSeekAndPlay
  \/ PlayObservation
  \/ PlayResolved
  \/ PlayRejected
  \/ PlayCancel

(***************************************************************************)
(* Initial time of a directfile content (src/unnamed/part_004,             *)
(* getDirectFileInitialTime). directfile.duration is mediaElement.duration  *)
(* (NULL when it is null, undefined or NaN), directfile.startAt the startAt *)
(* option (NULL when it is null or undefined, a field being NULL when it is *)
(* not set) and directfile.initialTime what the call returned (NULL before  *)
(* the call). Durations are multiples of 100, so that duration * ratio is   *)
(* an integer.                                                             *)
(***************************************************************************)

DirectfileDurations == {NULL, Some(0), Some(100), Some(200), Some(Infinity)}

Percentages == {0 - 50, 0, 1, 50, 99, 100, 150}

StartAtOptions ==
  {NULL} \cup
  { Some(o) : o \in [position : {NULL, Some(3)},
                     wallClockTime : {NULL, Some(4)},
                     fromFirstPosition : {NULL, Some(5)},
                     fromLastPosition : {NULL, Some(0 - 100), Some(0 - 300)},
                     percentage : {NULL} \cup { Some(pc) : pc \in Percentages }] }

percentagePosition_Unclamped(duration, percentage) == (duration * percentage) \div 100

\* lines 101-109: the position of a percentage of a finite duration.
percentagePosition(duration, percentage) ==
  IF percentage >= 100 THEN duration
  ELSE IF percentage <= 0 THEN 0
  ELSE (duration * percentage) \div 100

\* getDirectFileInitialTime (lines 78-112).
getDirectFileInitialTime(duration, startAt) ==
  IF startAt = NULL THEN 0
  ELSE LET o == startAt[1]
       IN IF o.position # NULL THEN o.position[1]
          ELSE IF o.wallClockTime # NULL THEN o.wallClockTime[1]
          ELSE IF o.fromFirstPosition # NULL THEN o.fromFirstPosition[1]
          ELSE IF duration = NULL \/ ~isFinite(duration[1]) THEN 0
          ELSE IF o.fromLastPosition # NULL
            THEN Max(0, duration[1] + o.fromLastPosition[1])
          ELSE IF o.percentage # NULL
            THEN percentagePosition(duration[1], o.percentage[1])
          ELSE 0

InitDirectfile ==
  \E duration \in DirectfileDurations, startAt \in StartAtOptions :
    directfile = [duration |-> duration, startAt |-> startAt, initialTime |-> NULL]

DirectfileOthersUnchanged ==
  UNCHANGED <<ranges, abr, options, mediaElement, clock, sampled, store, loader, push,
              rate, play, periodStream, estimator, segmentLoad, rangeOps, eme>>

GetDirectFileInitialTime ==
  /\ directfile.initialTime = NULL
  /\ directfile' =
       [directfile EXCEPT
          !.initialTime = Some(getDirectFileInitialTime(directfile.duration,
                                                        directfile.startAt))]
  /\ DirectfileOthersUnchanged

NextDirectfile == GetDirectFileInitialTime

(***************************************************************************)
(* PeriodStream (src/unnamed/part_002).                                    *)
(* One PeriodStream of one buffer type. periodStream.isNative is what            *)
(* SourceBuffersStore.isNative(bufferType) returns, periodStream.status the type *)
(* of sourceBuffersStore.getStatus(bufferType). periodStream.stream is the inner *)
(* Observable of the switchMap: "none", "reload" (a reload event on every  *)
(* tick), "waiting" (newStream$ before its first tick), "unusable" (before  *)
(* waitForUsableSourceBuffers emits), "cleaning" (inside cleanBuffer$),     *)
(* "adaptation" (the AdaptationStream and its garbage collector are         *)
(* subscribed to), "empty" (createEmptyStream) or "ended". Clock ticks are  *)
(* numbered. The ranges a clean-buffer strategy lists are named by their    *)
(* rank in the list; periodStream.removals holds, in the order of the calls *)
(* of removeBuffer, the range each call was given and the state of the      *)
(* Observable it returned ("created", "subscribed" or "completed"). The     *)
(* fields events, strategy, strategyTick (the tick given to                 *)
(* getAdaptationSwitchStrategy), removeBufferCalls, removals,               *)
(* adaptationStreams (calls of createAdaptationStream), subscriptions (of   *)
(* the AdaptationStream), gcSubscriptions, usable, disposeCalls and crashed *)
(* are about the last adaptation emitted by adaptation$ only.               *)
(* periodStream.live holds the Observables the inner stream is subscribed   *)
(* to, each with the rank of the adaptation it was subscribed for:          *)
(* "clock" (clock$ of a reload or of newStream$), "usable"                  *)
(* (waitForUsableSourceBuffers), "removal", "adaptationStream",             *)
(* "garbageCollector" and "emptyStream". periodStream.overlap is a history  *)
(* variable: whether an Observable was ever subscribed to, or an event      *)
(* emitted, while one of another adaptation was still subscribed to.        *)
(* periodStream.first is the type of the first event ever emitted. The      *)
(* PeriodStream starts unsubscribed ("unsubscribed"); adaptation$ is local  *)
(* to it and handed out by the periodStreamReady event only.                *)
(***************************************************************************)

\* Number of adaptations emitted by adaptation$, and of clock ticks.
MaxSwitches == 2
MaxTicks == 3

\* The adaptations that may be chosen (NULL: no adaptation).
Adaptations == {NULL, Some(1), Some(2)}

\* What getAdaptationSwitchStrategy may return, with the number of ranges to
\* clean.
SwitchStrategies ==
  { [type |-> "continue", value |-> 0],
    [type |-> "clean-buffer", value |-> 1],
    [type |-> "clean-buffer", value |-> 2],
    [type |-> "needs-reload", value |-> 0] }

SourceBufferStatuses == {"uninitialized", "disabled", "initialized"}

\* An event emitted by the PeriodStream; `value` is the number of the tick
\* of a reload event and 0 otherwise.
PeriodEvent(type, value) == [type |-> type, value |-> value]

PeriodState(isNative, status) ==
  [isNative |-> isNative, status |-> status, switches |-> 0, adaptation |-> NULL,
   stream |-> "unsubscribed", tick |-> 0, events |-> <<>>,
   live |-> {}, overlap |-> FALSE, first |-> NULL,
   strategy |-> NULL, strategyTick |-> NULL, removeBufferCalls |-> 0, adaptationStreams |-> 0,
   removals |-> <<>>, usable |-> FALSE, subscriptions |-> 0, gcSubscriptions |-> 0,
   disposeCalls |-> 0, crashed |-> FALSE, error |-> NULL]

\* PeriodStream has returned its Observable (line 43).
InitPeriod ==
  \E isNative \in BOOLEAN, status \in SourceBufferStatuses :
    periodStream = PeriodState(isNative, status)

PeriodOthersUnchanged ==
  UNCHANGED <<ranges, abr, options, mediaElement, clock, sampled, store, loader, push,
              rate, play, estimator, segmentLoad, rangeOps, directfile, eme>>

\* The inner stream subscribes to Observables for the adaptation chosen last.
subscribeTo(p, kinds) ==
  [p EXCEPT !.live = @ \cup {[switch |-> p.switches, kind |-> k] : k \in kinds},
            !.overlap = @ \/ (\E r \in p.live : r.switch # p.switches)]

\* Observables of the inner stream complete or are unsubscribed from.
unsubscribeFrom(p, kinds) == [p EXCEPT !.live = {r \in @ : r.kind \notin kinds}]

\* The inner stream emits an event.
emit(p, event) ==
  [p EXCEPT !.events = Append(@, event),
            !.first = IF @ = NULL THEN Some(event.type) ELSE @,
            !.overlap = @ \/ (\E r \in p.live : r.switch # p.switches)]

unsubscribeInner_KeepsGarbageCollector(p) ==
  [p EXCEPT !.live = {r \in @ : r.kind = "garbageCollector"}]

\* line 43: switchMap unsubscribes from the inner Observable it had.
unsubscribeInner(p) == [p EXCEPT !.live = {}]

\* lines 44-66: adaptation$ emits null. cleanBuffer$ of a non-native type
\* is the removal of the whole period (lines 55-57), subscribed to first by
\* observableConcat (line 65).
onNullAdaptation(p) ==
  IF p.status = "initialized"
  THEN IF p.isNative
       THEN subscribeTo([p EXCEPT !.stream = "reload"], {"clock"})
       ELSE subscribeTo([p EXCEPT !.removeBufferCalls = @ + 1,
                                  !.removals = <<[range |-> 0, state |-> "subscribed"]>>,
                                  !.stream = "cleaning"], {"removal"})
  ELSE subscribeTo(emit([p EXCEPT !.status = IF @ = "uninitialized" THEN "disabled" ELSE @,
                                  !.stream = "empty"],
                        PeriodEvent("adaptationChange", 0)), {"emptyStream"})

\* lines 67-74 and 92: adaptation$ emits an adaptation.
onAdaptation(p) ==
  IF p.isNative /\ p.status = "disabled"
  THEN subscribeTo([p EXCEPT !.stream = "reload"], {"clock"})
  ELSE subscribeTo(emit([p EXCEPT !.stream = "waiting"],
                        PeriodEvent("adaptationChange", 0)), {"clock"})

\* lines 81-84: strategy.value.map calls removeBuffer once per listed range,
\* in the order of the list; each call returns an Observable.
removeBufferCallsOf(value) ==
  [i \in 1..value |-> [range |-> i, state |-> "created"]]

onStrategy_ReloadAfterClean(p, strategy, tick) ==
  [p EXCEPT !.status = "initialized",
            !.strategy = Some(strategy.type),
            !.strategyTick = Some(tick),
            !.removeBufferCalls = @ + 1,
            !.events = Append(@, PeriodEvent("needsMediaSourceReload", tick)),
            !.stream = "ended"]

\* lines 74-91: the mergeMap callback of newStream$ on its first tick, which
\* take(1) makes the last one of clock$.
onStrategy(p, strategy, tick) ==
  LET q == unsubscribeFrom([p EXCEPT !.status = "initialized",
                                     !.strategy = Some(strategy.type),
                                     !.strategyTick = Some(tick)], {"clock"})
  IN IF strategy.type = "needs-reload"
     THEN emit([q EXCEPT !.stream = "ended"], PeriodEvent("needsMediaSourceReload", tick))
     ELSE subscribeTo(
            [q EXCEPT !.removeBufferCalls =
                        IF strategy.type = "clean-buffer" THEN @ + strategy.value ELSE @,
                      !.removals =
                        IF strategy.type = "clean-buffer"
                        THEN removeBufferCallsOf(strategy.value) ELSE <<>>,
                      !.adaptationStreams = @ + 1,
                      !.stream = "unusable"], {"usable"})

\* The Observables of line 89: observableMerge(adaptationStream$,
\* bufferGarbageCollector$) is subscribed to.
subscribeAdaptationStream(p) ==
  subscribeTo([p EXCEPT !.subscriptions = @ + 1, !.gcSubscriptions = @ + 1,
                        !.stream = "adaptation"],
              {"adaptationStream", "garbageCollector"})

nextOfConcat_All(p, from) ==
  IF from > Len(p.removals)
  THEN subscribeAdaptationStream(p)
  ELSE subscribeAdaptationStream(
         [p EXCEPT !.removals = [i \in 1..Len(p.removals) |->
                                   IF i >= from THEN [@[i] EXCEPT !.state = "subscribed"]
                                   ELSE @[i]]])

\* observableConcat (lines 81 and 89): the removal of rank `from` is
\* subscribed to, or, after the last one, the Observables of the
\* AdaptationStream.
nextOfConcat(p, from) ==
  IF from > Len(p.removals)
  THEN subscribeAdaptationStream(p)
  ELSE subscribeTo([p EXCEPT !.removals[from].state = "subscribed", !.stream = "cleaning"],
                   {"removal"})

onAdaptationStreamError_AlwaysThrows(p) ==
  [p EXCEPT !.crashed = TRUE, !.error = Some("AdaptationStreamError"), !.stream = "ended",
            !.live = {}]

\* lines 108-123: the catchError callback of createAdaptationStream. The
\* Observable it returns replaces the AdaptationStream; an error thrown
\* again ends the PeriodStream and every subscription of it.
onAdaptationStreamError(p) ==
  IF ~p.isNative
  THEN subscribeTo(emit(unsubscribeFrom([p EXCEPT !.crashed = TRUE,
                                                  !.disposeCalls = @ + 1,
                                                  !.status = "uninitialized",
                                                  !.stream = "empty"],
                                        {"adaptationStream"}),
                        PeriodEvent("warning", 0)), {"emptyStream"})
  ELSE [p EXCEPT !.crashed = TRUE,
                 !.error = Some("AdaptationStreamError"),
                 !.stream = "ended",
                 !.live = {}]

\* The PeriodStream is subscribed to: startWith emits periodStreamReady,
\* which holds adaptation$ (line 93).
PeriodSubscribe ==
  /\ periodStream.stream = "unsubscribed"
  /\ periodStream' = emit([periodStream EXCEPT !.stream = "none"],
                          PeriodEvent("periodStreamReady", 0))
  /\ PeriodOthersUnchanged

\* adaptation$.next(adaptation), by who received adaptation$: switchMap drops
\* the inner stream and runs its callback (lines 43-93).
AdaptationNext ==
  /\ periodStream.error = NULL
  /\ periodStream.stream # "unsubscribed"
  /\ periodStream.switches < MaxSwitches
  /\ \E adaptation \in Adaptations :
       LET p == [unsubscribeInner(periodStream) EXCEPT !.switches = @ + 1,
                               !.adaptation = adaptation,
                               !.stream = "none",
                               !.events = <<>>,
                               !.strategy = NULL,
                               !.strategyTick = NULL,
                               !.removeBufferCalls = 0,
                               !.adaptationStreams = 0,
                               !.removals = <<>>,
                               !.usable = FALSE,
                               !.subscriptions = 0,
                               !.gcSubscriptions = 0,
                               !.disposeCalls = 0,
                               !.crashed = FALSE]
       IN periodStream' = IF adaptation = NULL THEN onNullAdaptation(p) ELSE onAdaptation(p)
  /\ PeriodOthersUnchanged

\* clock$ emits a tick to the inner stream.
PeriodTick ==
  /\ periodStream.error = NULL
  /\ periodStream.tick < MaxTicks
  /\ \E strategy \in SwitchStrategies :
       LET tick == periodStream.tick + 1
           p == [periodStream EXCEPT !.tick = tick]
       IN periodStream' =
            CASE periodStream.stream = "reload" ->
                   emit(p, PeriodEvent("needsMediaSourceReload", tick))
              [] periodStream.stream = "waiting" -> onStrategy(p, strategy, tick)
              [] OTHER -> p
  /\ PeriodOthersUnchanged

\* The AdaptationStream fails.
AdaptationStreamError ==
  /\ periodStream.error = NULL
  /\ periodStream.stream = "adaptation"
  /\ periodStream' = onAdaptationStreamError(periodStream)
  /\ PeriodOthersUnchanged

\* waitForUsableSourceBuffers() emits (line 88): the mergeMap callback
\* subscribes to observableConcat(cleanBuffer$, ...).
SourceBuffersUsable ==
  /\ periodStream.error = NULL
  /\ periodStream.stream = "unusable"
  /\ periodStream' = nextOfConcat([periodStream EXCEPT !.usable = TRUE], 1)
  /\ PeriodOthersUnchanged

\* line 65: cleanBuffer$ of a null adaptation has completed: mapTo emits
\* adaptationChange and observableConcat subscribes to the empty stream.
onNullCleaned(p) ==
  subscribeTo(emit([p EXCEPT !.stream = "empty"], PeriodEvent("adaptationChange", 0)),
              {"emptyStream"})

\* The removal that is subscribed to completes.
RemovalComplete ==
  /\ periodStream.error = NULL
  /\ periodStream.stream = "cleaning"
  /\ \E i \in 1..Len(periodStream.removals) :
       /\ periodStream.removals[i].state = "subscribed"
       /\ LET p == unsubscribeFrom([periodStream EXCEPT !.removals[i].state = "completed"],
                                   {"removal"})
          IN periodStream' = IF p.adaptation = NULL THEN onNullCleaned(p)
                             ELSE nextOfConcat(p, i + 1)
  /\ PeriodOthersUnchanged

\* The removal that is subscribed to fails: the error goes through
\* observableConcat and ends the PeriodStream.
RemovalError ==
  /\ periodStream.error = NULL
  /\ periodStream.stream = "cleaning"
  /\ periodStream' = [periodStream EXCEPT !.error = Some("RemoveBufferError"),
                                          !.stream = "ended",
                                          !.live = {}]
  /\ PeriodOthersUnchanged

NextPeriod ==
  \/ PeriodSubscribe
  \/ AdaptationNext
  \/ PeriodTick
  \/ AdaptationStreamError
  \/ SourceBuffersUsable
  \/ RemovalComplete
  \/ RemovalError

(***************************************************************************)
(* createRepresentationEstimator (create_representation_estimator.js).     *)
(* estimator.playable is what adaptation.getPlayableRepresentations()      *)
(* returns (representations are named by their id), estimator.previous the *)
(* last list let through by distinctUntilChanged, estimator.abrStarts the  *)
(* number of calls of abrManager.get$ and estimator.abrActive whether the  *)
(* last one is still subscribed to. estimator.checked is a history         *)
(* variable: the list read by the last run of the map callback, with the   *)
(* number of calls of abrManager.get$ and the list distinctUntilChanged    *)
(* held before it.                                                         *)
(***************************************************************************)

\* Number of decipherabilityUpdate events.
MaxUpdates == 3

\* The lists of playable representations of the adaptation.
PlayableLists == {<<>>, <<1>>, <<2>>, <<1, 2>>}

hasNoPlayableRepresentation_Never(playableRepresentations) == FALSE

\* line 46: the test of the map callback.
hasNoPlayableRepresentation(playableRepresentations) ==
  Len(playableRepresentations) <= 0

sameRepresentations_LengthOnly(prevRepr, newRepr) ==
  Len(prevRepr) = Len(newRepr)

\* lines 52-61: the comparison of distinctUntilChanged.
sameRepresentations(prevRepr, newRepr) ==
  IF Len(prevRepr) # Len(newRepr) THEN FALSE
  ELSE \A i \in 1..Len(newRepr) : prevRepr[i] = newRepr[i]

\* lines 43-64: the pipeline runs for one emission of the merge.
estimatorRun(e) ==
  LET f == [e EXCEPT !.checked = Some([playable |-> e.playable, abrStarts |-> e.abrStarts,
                                       previous |-> e.previous])]
  IN IF hasNoPlayableRepresentation(e.playable)
     THEN [f EXCEPT !.error = Some("NO_PLAYABLE_REPRESENTATION"), !.abrActive = FALSE]
     ELSE IF e.previous # NULL /\ sameRepresentations(e.previous[1], e.playable)
          THEN f
          ELSE [f EXCEPT !.previous = Some(e.playable),
                         !.abrStarts = @ + 1,
                         !.abrActive = TRUE]

\* createRepresentationEstimator has returned; estimator$ is not subscribed
\* to yet.
InitEstimator ==
  \E playable \in PlayableLists :
    estimator = [subscribed |-> FALSE, playable |-> playable, previous |-> NULL,
                 updates |-> 0, abrStarts |-> 0, abrActive |-> FALSE,
                 error |-> NULL, checked |-> NULL]

EstimatorOthersUnchanged ==
  UNCHANGED <<ranges, abr, options, mediaElement, clock, sampled, store, loader, push,
              rate, play, periodStream, segmentLoad, rangeOps, directfile, eme>>

\* estimator$ is subscribed to: observableOf(null) emits at once.
EstimatorSubscribe ==
  /\ ~estimator.subscribed
  /\ estimator' = estimatorRun([estimator EXCEPT !.subscribed = TRUE])
  /\ EstimatorOthersUnchanged

\* The manifest emits decipherabilityUpdate after the decipherability of
\* representations changed. The pipeline runs if it is subscribed to and has
\* not failed.
DecipherabilityUpdate ==
  /\ estimator.updates < MaxUpdates
  /\ \E playable \in PlayableLists :
       LET e == [estimator EXCEPT !.playable = playable, !.updates = @ + 1]
       IN estimator' = IF e.subscribed /\ e.error = NULL THEN estimatorRun(e) ELSE e
  /\ EstimatorOthersUnchanged

NextEstimator == EstimatorSubscribe \/ DecipherabilityUpdate

(***************************************************************************)
(* EMEManager (src/src/core/eme/eme_manager.ts), the bindSession$ pipeline *)
(* of one content. eme.pending holds the protected events that wait for    *)
(* attachedMediaKeys$ in the first mergeMap, eme.index is the index `i` of *)
(* the second mergeMap, eme.handled is handledInitData, eme.certificate    *)
(* the state of the server certificate of the MediaKeys ("none" before     *)
(* trySettingServerCertificate ran, "skipped" when it completed without    *)
(* calling the API, "setting" while the promise of                         *)
(* mediaKeys.setServerCertificate is pending, then "set" or "failed"),     *)
(* eme.waiting the init data whose session$ observableConcat has not       *)
(* subscribed to yet, and eme.sessions the subscriptions to session$ in    *)
(* order: getSession creates or reuses a MediaKeySession then, and each    *)
(* entry keeps the state of the certificate at that time. The media        *)
(* element, the MediaKeys and ServerCertificateStore are the environment.  *)
(***************************************************************************)

\* Number of protected events of one run.
MaxProtectedEvents == 3

\* Initialization data of the protected events.
InitDatas == {"d1", "d2"}

InitEme ==
  eme = [started |-> FALSE, serverCertificate |-> FALSE, isFunction |-> TRUE,
         hasOne |-> FALSE, attached |-> FALSE, events |-> 0, pending |-> <<>>,
         index |-> 0, handled |-> {}, certificate |-> "none", waiting |-> NULL,
         sessions |-> <<>>, warnings |-> 0]

EmeOthersUnchanged ==
  UNCHANGED <<ranges, abr, options, mediaElement, clock, sampled, store, loader, push,
              rate, play, periodStream, estimator, segmentLoad, rangeOps, directfile>>

\* session$ is subscribed to: getSession creates or reuses a MediaKeySession
\* for the init data.
getSession(e, initData) ==
  [e EXCEPT !.sessions = Append(@, [initData |-> initData, certificate |-> e.certificate])]

\* trySettingServerCertificate (part_000 lines 55-84) is subscribed to.
trySettingServerCertificate(e) ==
  IF ~e.isFunction \/ e.hasOne
  THEN [e EXCEPT !.certificate = "skipped"]
  ELSE [e EXCEPT !.certificate = "setting"]

\* The callback of the second mergeMap (lines 120-154) and the subscription
\* to what it returns.
bindSession(e, initData) ==
  LET f == [e EXCEPT !.index = @ + 1]
  IN IF initData \in e.handled THEN f
     ELSE LET g == [f EXCEPT !.handled = @ \cup {initData}]
          IN IF e.index = 0 /\ e.serverCertificate
             THEN LET h == trySettingServerCertificate(g)
                  IN IF h.certificate = "setting"
                     THEN [h EXCEPT !.waiting = Some(initData)]
                     ELSE getSession(h, initData)
             ELSE getSession(g, initData)

RECURSIVE bindSessions(_, _)
\* The protected events that waited for attachedMediaKeys$ go through, in the
\* order they arrived in.
bindSessions(e, protectedEvents) ==
  IF protectedEvents = <<>> THEN e
  ELSE bindSessions(bindSession(e, Head(protectedEvents)), Tail(protectedEvents))

\* EMEManager is called and its observable subscribed to, with or without a
\* serverCertificate in the key system options.
EmeStart ==
  /\ ~eme.started
  /\ \E serverCertificate \in BOOLEAN, isFunction \in BOOLEAN, hasOne \in BOOLEAN :
       eme' = [eme EXCEPT !.started = TRUE,
                          !.serverCertificate = serverCertificate,
                          !.isFunction = isFunction,
                          !.hasOne = hasOne]
  /\ EmeOthersUnchanged

\* attachedMediaKeys$ emits (lines 92-96): the events of the first mergeMap
\* (lines 115-119) go to the second one.
MediaKeysAttached ==
  /\ eme.started
  /\ ~eme.attached
  /\ eme' = bindSessions([eme EXCEPT !.attached = TRUE, !.pending = <<>>], eme.pending)
  /\ EmeOthersUnchanged

\* protectedEvents$ emits (lines 98-112): an encrypted event of the media
\* element or a content protection of the manifest.
ProtectedEvent ==
  /\ eme.started
  /\ eme.events < MaxProtectedEvents
  /\ \E initData \in InitDatas :
       LET e == [eme EXCEPT !.events = @ + 1]
       IN eme' = IF e.attached THEN bindSession(e, initData)
                 ELSE [e EXCEPT !.pending = Append(@, initData)]
  /\ EmeOthersUnchanged

\* The promise of mediaKeys.setServerCertificate resolves (part_000 line 72):
\* the first observable of observableConcat completes and session$ is
\* subscribed to (lines 143-148).
CertificateSet ==
  /\ eme.certificate = "setting"
  /\ eme' = getSession([eme EXCEPT !.certificate = "set", !.waiting = NULL],
                       eme.waiting[1])
  /\ EmeOthersUnchanged

\* The promise of mediaKeys.setServerCertificate is rejected: catchError
\* emits a warning and completes (part_000 lines 78-82), session$ is
\* subscribed to.
CertificateRejected ==
  /\ eme.certificate = "setting"
  /\ eme' = getSession([eme EXCEPT !.certificate = "failed", !.waiting = NULL,
                                   !.warnings = @ + 1],
                       eme.waiting[1])
  /\ EmeOthersUnchanged

NextEme ==
  \/ EmeStart
  \/ MediaKeysAttached
  \/ ProtectedEvent
  \/ CertificateSet
  \/ CertificateRejected

(***************************************************************************)
(* Specifications. The sub-systems share no state: each specification runs *)
(* one of them and leaves the others in their initial state.               *)
(***************************************************************************)

AbrIdle == InitAbr /\ Len(abr.representations) = 3

PeriodIdle ==
  InitPeriod /\ periodStream.isNative /\ periodStream.status = "uninitialized"

EstimatorIdle == InitEstimator /\ estimator.playable = <<1, 2>>

SegmentLoadIdle ==
  /\ InitSegmentLoad
  /\ segmentLoad.inputs = [urlIsNull |-> FALSE, customSegmentLoader |-> TRUE,
                           lowLatencyMode |-> FALSE, isInit |-> FALSE,
                           containerType |-> "mp4", fetchIsSupported |-> TRUE]

RangeOpsIdle ==
  InitRangeOps /\ rangeOps.baseRanges = <<>> /\ rangeOps.rangesToExclude = <<>>

DirectfileIdle ==
  InitDirectfile /\ directfile.duration = NULL /\ directfile.startAt = NULL

EmeIdle == InitEme

\* The subsystems of the initialization and of the streams, at rest.
OthersIdle ==
  /\ InitRate /\ InitPlay /\ PeriodIdle /\ EstimatorIdle /\ SegmentLoadIdle
  /\ RangeOpsIdle /\ DirectfileIdle /\ EmeIdle

ClockIdle == InitClock /\ options = [withMediaSource |-> TRUE, lowLatencyMode |-> FALSE]

PushIdle == InitPush /\ push.period = [start |-> 0, end |-> 20]

Init ==
  /\ InitRanges /\ InitAbr /\ InitClock /\ InitStore /\ InitLoader /\ InitPush
  /\ OthersIdle

Next ==
  \/ NextRanges \/ NextAbr \/ NextClock \/ NextStore \/ NextLoader \/ NextPush
  \/ NextSeek \/ NextRate \/ NextPlay \/ NextPeriod \/ NextEstimator
  \/ NextSegmentLoad \/ NextRangeOps \/ NextDirectfile \/ NextAbrSpeed
  \/ NextEme

Spec == Init /\ [][Next]_vars

\* Ranges, ABR, clock, store, loader and push at rest.
CoreIdle == InitRanges /\ AbrIdle /\ ClockIdle /\ InitStore /\ InitLoader /\ PushIdle

InitSpecRanges == CoreIdle /\ OthersIdle

SpecRanges == InitSpecRanges /\ [][NextRanges]_vars

InitSpecAbr ==
  /\ InitRanges /\ InitAbr /\ ClockIdle /\ InitStore /\ InitLoader /\ PushIdle
  /\ OthersIdle

SpecAbr == InitSpecAbr /\ [][NextAbr]_vars

InitSpecAbrSpeed == CoreIdle /\ OthersIdle

SpecAbrSpeed == InitSpecAbrSpeed /\ [][NextAbrSpeed]_vars

\* The clock created with a media source (withMediaSource = true), in either
\* latency mode.
InitSpecClock ==
  /\ InitRanges /\ AbrIdle /\ InitClock /\ InitStore /\ InitLoader /\ PushIdle
  /\ OthersIdle
  /\ options.withMediaSource

SpecClock == InitSpecClock /\ [][NextClock]_vars

\* The clock created without a media source (a directfile content), in either
\* latency mode.
InitSpecClockDirect ==
  /\ InitRanges /\ AbrIdle /\ InitClock /\ InitStore /\ InitLoader /\ PushIdle
  /\ OthersIdle
  /\ ~options.withMediaSource

SpecClockDirect == InitSpecClockDirect /\ [][NextClock]_vars

InitSpecSeek == CoreIdle /\ OthersIdle

SpecSeek == InitSpecSeek /\ [][NextSeek]_vars

InitSpecStore == InitSpecRanges

SpecStore == InitSpecStore /\ [][NextStore]_vars

InitSpecLoader == InitSpecRanges

SpecLoader == InitSpecLoader /\ [][NextLoader]_vars

InitSpecPush ==
  /\ InitRanges /\ AbrIdle /\ ClockIdle /\ InitStore /\ InitLoader /\ InitPush
  /\ OthersIdle

SpecPush == InitSpecPush /\ [][NextPush]_vars

InitSpecRate == CoreIdle /\ OthersIdle

SpecRate == InitSpecRate /\ [][NextRate]_vars

InitSpecPlay == CoreIdle /\ OthersIdle

SpecPlay == InitSpecPlay /\ [][NextPlay]_vars

\* The playback observer keeps emitting observations to a registered listener
\* (it samples the media element on a timer and on its events), and the
\* promise mediaElement.play() returned settles.
InitSpecPlayLive == CoreIdle /\ OthersIdle

SpecPlayLive ==
  /\ InitSpecPlayLive
  /\ [][NextPlay]_vars
  /\ WF_vars(PlayObservation)
  /\ WF_vars(PlayResolved \/ PlayRejected)

InitSpecPeriod ==
  CoreIdle /\ InitRate /\ InitPlay /\ InitPeriod /\ EstimatorIdle /\ SegmentLoadIdle
  /\ RangeOpsIdle /\ DirectfileIdle /\ EmeIdle

SpecPeriod == InitSpecPeriod /\ [][NextPeriod]_vars

InitSpecEstimator ==
  CoreIdle /\ InitRate /\ InitPlay /\ PeriodIdle /\ InitEstimator /\ SegmentLoadIdle
  /\ RangeOpsIdle /\ DirectfileIdle /\ EmeIdle

SpecEstimator == InitSpecEstimator /\ [][NextEstimator]_vars

InitSpecSegmentLoad ==
  CoreIdle /\ InitRate /\ InitPlay /\ PeriodIdle /\ EstimatorIdle /\ InitSegmentLoad
  /\ RangeOpsIdle /\ DirectfileIdle /\ EmeIdle

SpecSegmentLoad == InitSpecSegmentLoad /\ [][NextSegmentLoad]_vars

InitSpecExclude ==
  CoreIdle /\ InitRate /\ InitPlay /\ PeriodIdle /\ EstimatorIdle /\ SegmentLoadIdle
  /\ InitRangeOps /\ DirectfileIdle /\ EmeIdle

SpecExclude == InitSpecExclude /\ [][NextExclude]_vars

\* Time queries on every list (the second list plays no part in them).
InitSpecQuery ==
  CoreIdle /\ InitRate /\ InitPlay /\ PeriodIdle /\ EstimatorIdle /\ SegmentLoadIdle
  /\ InitRangeOps /\ rangeOps.rangesToExclude = <<>> /\ DirectfileIdle /\ EmeIdle

SpecQuery == InitSpecQuery /\ [][NextQuery]_vars

InitSpecDirectfile ==
  /\ CoreIdle /\ InitRate /\ InitPlay /\ PeriodIdle /\ EstimatorIdle /\ SegmentLoadIdle
  /\ RangeOpsIdle /\ InitDirectfile /\ EmeIdle

SpecDirectfile == InitSpecDirectfile /\ [][NextDirectfile]_vars

InitSpecEme ==
  /\ CoreIdle /\ InitRate /\ InitPlay /\ PeriodIdle /\ EstimatorIdle /\ SegmentLoadIdle
  /\ RangeOpsIdle /\ DirectfileIdle /\ InitEme

SpecEme == InitSpecEme /\ [][NextEme]_vars

(***************************************************************************)
(* Properties of insertInto.                                               *)
(***************************************************************************)

RangesSorted ==
  \A i \in 1..(Len(ranges) - 1) : ranges[i].start < ranges[i + 1].start

RangesDisjoint ==
  \A i \in 1..(Len(ranges) - 1) : ranges[i].end <= ranges[i + 1].start

RangesNoEmpty == \A i \in 1..Len(ranges) : ranges[i].start # ranges[i].end

RangesGapStrict ==
  \A i \in 1..(Len(ranges) - 1) : ranges[i].end + EPSILON < ranges[i + 1].start

\* C1. Starting from the empty list, after any sequence of insertInto calls
\* the list is sorted by start, pairwise disjoint, holds no range with
\* start = end, and adjacent ranges satisfy R[i].end + EPSILON < R[i+1].start.
C1_InsertIntoInvariant ==
  RangesSorted /\ RangesDisjoint /\ RangesNoEmpty /\ RangesGapStrict

\* C24. insertInto is idempotent: for every list reachable by insertions from
\* the empty list and every range r, inserting r a second time changes
\* nothing.
C24_InsertIntoIdempotent ==
  \A r \in RangeInputs :
    insertInto(insertInto(ranges, r), r) = insertInto(ranges, r)

\* A list of two ranges which some insertion changes: the inserted range
\* bridges the two (it merges them into one range), and inserting it again
\* changes nothing.
C24_Witness ==
  /\ Len(ranges) = 2
  /\ \E r \in RangeInputs :
       /\ Len(insertInto(ranges, r)) = 1
       /\ insertInto(ranges, r) # ranges
       /\ insertInto(insertInto(ranges, r), r) = insertInto(ranges, r)

\* The range r starts less than EPSILON after the end of the stored range of
\* rank i (or at its end) and ends less than EPSILON before the start of the
\* next stored range (or at its start).
Bridges(r, i) ==
  /\ ranges[i].end <= r.start /\ r.start - ranges[i].end < EPSILON
  /\ r.end <= ranges[i + 1].start /\ ranges[i + 1].start - r.end < EPSILON

\* The stored list, the ranges of ranks i and i + 1 replaced by the one range
\* going from the start of the first to the end of the second.
MergedAt(i) ==
  SubSeq(ranges, 1, i - 1)
    \o <<[start |-> ranges[i].start, end |-> ranges[i + 1].end]>>
    \o SubSeq(ranges, i + 2, Len(ranges))

\* C27 as stated. Inserting a range that starts less than EPSILON after the
\* end of one stored range and ends less than EPSILON before the start of the
\* next one merges the three into one range, from the start of the first to
\* the end of the second.
C27_BridgeAsClaimed ==
  \A i \in 1..(Len(ranges) - 1) : \A r \in RangeInputs :
    Bridges(r, i) => insertInto(ranges, r) = MergedAt(i)

\* C27 as amended. The same, for an inserted range with start < end.
C27_Bridge ==
  \A i \in 1..(Len(ranges) - 1) : \A r \in RangeInputs :
    (Bridges(r, i) /\ r.start < r.end) => insertInto(ranges, r) = MergedAt(i)

\* The example of the claim with the times divided by 5 s: the stored ranges
\* are 4/120 s apart and the inserted range leaves 1/120 s on each side.
C27_Witness ==
  /\ ranges = <<[start |-> 0, end |-> 2], [start |-> 6, end |-> 8]>>
  /\ Bridges([start |-> 3, end |-> 5], 1)
  /\ insertInto(ranges, [start |-> 3, end |-> 5]) = <<[start |-> 0, end |-> 8]>>

(***************************************************************************)
(* Properties of excludeFromRanges and of the time queries.                *)
(***************************************************************************)

Excluded == rangeOps.excluded # NULL

ExcludedRanges == rangeOps.excluded[1]

NoEmptyRange(rs) == \A i \in 1..Len(rs) : rs[i].start # rs[i].end

\* Half-open containment of a time in some range of a list.
Covers(rs, t) == \E i \in 1..Len(rs) : rs[i].start <= t /\ t < rs[i].end

\* C25. For every sorted, disjoint list R without empty ranges:
\* excludeFromRanges(R, []) returns R and excludeFromRanges(R, R) returns the
\* empty list.
C25_ExcludeIdentities ==
  (Excluded /\ NoEmptyRange(rangeOps.baseRanges)) =>
    /\ rangeOps.rangesToExclude = <<>> => ExcludedRanges = rangeOps.baseRanges
    /\ rangeOps.rangesToExclude = rangeOps.baseRanges => ExcludedRanges = <<>>

\* A list of two ranges, the second starting where the first ends, was
\* excluded from itself.
C25_Witness ==
  /\ Excluded
  /\ Len(rangeOps.baseRanges) = 2
  /\ NoEmptyRange(rangeOps.baseRanges)
  /\ rangeOps.baseRanges[1].end = rangeOps.baseRanges[2].start
  /\ rangeOps.rangesToExclude = rangeOps.baseRanges
  /\ ExcludedRanges = <<>>

\* What excludeFromRanges returned is the set difference of its arguments and
\* is sorted, disjoint and free of empty ranges. Every bound of a range being
\* an integer, containment at the integer times decides containment at every
\* time.
ExcludedIsDifference ==
  /\ \A t \in QueryTimes :
       Covers(ExcludedRanges, t)
         <=> (Covers(rangeOps.baseRanges, t) /\ ~Covers(rangeOps.rangesToExclude, t))
  /\ \A i \in 1..(Len(ExcludedRanges) - 1) :
       /\ ExcludedRanges[i].start <= ExcludedRanges[i + 1].start
       /\ ExcludedRanges[i].end <= ExcludedRanges[i + 1].start
  /\ NoEmptyRange(ExcludedRanges)

\* C26 as stated. For sorted, disjoint lists baseRanges and rangesToExclude,
\* excludeFromRanges returns the set difference (a time lies in a returned
\* range iff it lies in a base range and in no excluded range, half-open) as
\* a sorted, disjoint list free of empty ranges.
C26_DifferenceAsClaimed == Excluded => ExcludedIsDifference

\* C26 as amended. The same, for a baseRanges list without empty ranges
\* (rangesToExclude may hold some).
C26_Difference ==
  (Excluded /\ NoEmptyRange(rangeOps.baseRanges)) => ExcludedIsDifference

\* One base range overlapped by two excluded ranges, the first of which
\* starts before it: what is left is the part between the two and the part
\* after the second.
C26_Witness ==
  /\ Excluded
  /\ rangeOps.baseRanges = <<[start |-> 1, end |-> 4]>>
  /\ rangeOps.rangesToExclude = <<[start |-> 0, end |-> 2], [start |-> 3, end |-> 3]>>
  /\ ExcludedRanges = <<[start |-> 2, end |-> 3], [start |-> 3, end |-> 4]>>

Queried == rangeOps.query # NULL

\* C28. For every sorted, disjoint list and time t: isTimeInRanges is true iff
\* some range has start <= t < end; getLeftSizeOfRange is that range's
\* end - t in that case and +Infinity otherwise, in particular when t is the
\* end of a range that no other range continues.
C28_HalfOpenQueries ==
  Queried =>
    LET t == rangeOps.query[1].time
        rs == rangeOps.baseRanges
    IN /\ rangeOps.query[1].isTimeInRanges
            <=> (\E i \in 1..Len(rs) : rs[i].start <= t /\ t < rs[i].end)
       /\ \A i \in 1..Len(rs) :
            (rs[i].start <= t /\ t < rs[i].end)
              => rangeOps.query[1].leftSize = rs[i].end - t
       /\ (\A i \in 1..Len(rs) : ~(rs[i].start <= t /\ t < rs[i].end))
            => rangeOps.query[1].leftSize = Infinity

\* The time asked about is the end of the first range, and the second range
\* starts later: the time is in no range and the left size is +Infinity.
C28_Witness ==
  /\ Queried
  /\ Len(rangeOps.baseRanges) = 2
  /\ rangeOps.baseRanges[1].start < rangeOps.baseRanges[1].end
  /\ rangeOps.query[1].time = rangeOps.baseRanges[1].end
  /\ rangeOps.baseRanges[2].start > rangeOps.baseRanges[1].end
  /\ ~rangeOps.query[1].isTimeInRanges
  /\ rangeOps.query[1].leftSize = Infinity

(***************************************************************************)
(* Properties of the RepresentationEstimator.                              *)
(***************************************************************************)

\* C2. In an auto-mode session, on every evaluation: forceBandwidthMode goes
\* from true to false only when bufferGap is finite and > 10, from false to
\* true only when bufferGap <= 5, and a flag that was true stays true when
\* bufferGap is in (5, 10] or is +Infinity.
C2_Hysteresis ==
  (abr.mode = "auto" /\ abr.bufferGap # NULL) =>
    LET bufferGap == abr.bufferGap[1] IN
    /\ (abr.prevForceBandwidthMode /\ ~abr.forceBandwidthMode)
         => (bufferGap # Infinity /\ bufferGap > 10)
    /\ (~abr.prevForceBandwidthMode /\ abr.forceBandwidthMode) => bufferGap <= 5
    /\ (abr.prevForceBandwidthMode
          /\ ((bufferGap > 5 /\ bufferGap <= 10) \/ bufferGap = Infinity))
         => abr.forceBandwidthMode

\* The flag was true and an evaluation with bufferGap = +Infinity kept it
\* true, in a second session (the first one having been replaced).
C2_Witness ==
  /\ abr.mode = "auto"
  /\ abr.session = 2
  /\ abr.bufferGap = Some(Infinity)
  /\ abr.prevForceBandwidthMode
  /\ abr.forceBandwidthMode

\* An auto-mode estimate has been emitted.
AutoEstimated == abr.mode = "auto" /\ abr.representation # NULL

\* selectOptimal(filtered, bitrateChosen, min, max) for the last evaluation.
BandwidthChoice ==
  selectOptimalRepresentation(abr.filtered[1], abr.bitrateChosen[1],
                              abr.minAutoBitrate[1], abr.maxAutoBitrate[1])

\* selectOptimal(filtered, bufferBasedBitrate, min, max) for the last evaluation.
BufferBasedChoice ==
  selectOptimalRepresentation(abr.filtered[1], abr.bufferBasedBitrate[1],
                              abr.minAutoBitrate[1], abr.maxAutoBitrate[1])

\* C11 as stated. In auto mode with at least two representations, the
\* representation of each decision is the bandwidth choice if
\* forceBandwidthMode is true, or there is no buffer-based estimate, or the
\* buffer-based bitrate is >= the bitrate of the bandwidth choice; otherwise
\* it is selectOptimal(filtered, bufferBasedBitrate, min, max).
C11_ChoiceAsClaimed ==
  AutoEstimated =>
    abr.representation[1] =
      IF \/ abr.forceBandwidthMode
         \/ abr.bufferBasedBitrate = NULL
         \/ abr.bufferBasedBitrate[1] >= BandwidthChoice
      THEN BandwidthChoice
      ELSE BufferBasedChoice

\* C11 as amended. The same with the comparison the other way round: the
\* bandwidth choice is kept when its bitrate is >= the buffer-based bitrate.
C11_Choice ==
  AutoEstimated =>
    abr.representation[1] =
      IF \/ abr.forceBandwidthMode
         \/ abr.bufferBasedBitrate = NULL
         \/ BandwidthChoice >= abr.bufferBasedBitrate[1]
      THEN BandwidthChoice
      ELSE BufferBasedChoice

\* An estimate out of forceBandwidthMode whose buffer-based bitrate is above
\* the bandwidth choice: the decision is the buffer-based choice, another
\* representation than the bandwidth choice.
C11_Witness ==
  /\ AutoEstimated
  /\ ~abr.forceBandwidthMode
  /\ abr.bufferBasedBitrate # NULL
  /\ abr.bufferBasedBitrate[1] > BandwidthChoice
  /\ abr.representation[1] = BufferBasedChoice
  /\ BufferBasedChoice # BandwidthChoice

\* A decision was emitted while the manual bitrate was >= 0.
ManualDecision ==
  /\ abr.representation # NULL
  /\ abr.manualBitrate # NULL
  /\ abr.manualBitrate[1] >= 0

ManualDecisionAsClaimed ==
  /\ abr.manual
  /\ abr.urgent = Some(TRUE)
  /\ abr.representation[1] =
       selectOptimalRepresentation(abr.representations, abr.manualBitrate[1], 0, Infinity)

\* C12 as stated. Whenever the manual bitrate is >= 0, for every non-empty
\* list of representations, the decision has manual = true, urgent = true and
\* the representation selectOptimal(all representations, manualBitrate, 0,
\* +Infinity).
C12_ManualAsClaimed == ManualDecision => ManualDecisionAsClaimed

\* C12 as amended. The same for every list of at least two representations.
C12_Manual ==
  (ManualDecision /\ Len(abr.representations) >= 2) => ManualDecisionAsClaimed

\* A manual decision in a second session, over three representations, that
\* is neither the lowest nor the highest representation.
C12_Witness ==
  /\ ManualDecision
  /\ abr.session = 2
  /\ Len(abr.representations) = 3
  /\ abr.representation[1] = abr.representations[2]

\* What the estimate of the current state would have chosen with another
\* maxAutoBitrate, everything else being the same.
ChosenWithMax(maxAutoBitrate) ==
  autoRepresentation(abr.forceBandwidthMode, abr.filtered[1], abr.bitrateChosen[1],
                     abr.bufferBasedBitrate, abr.minAutoBitrate[1], maxAutoBitrate)

DivisorAsClaimed == IF abr.speed[1] > SpeedUnit THEN abr.speed[1] ELSE SpeedUnit

DivisorPositiveSpeed == IF abr.speed[1] > 0 THEN abr.speed[1] ELSE SpeedUnit

\* C30 as stated. In auto mode, after an estimate: when a last stable
\* representation exists, knownStableBitrate is its bitrate divided by
\* max(1, speed); it is undefined when there is none.
C30_StableHintAsClaimed ==
  (abr.mode = "auto" /\ abr.speed # NULL) =>
    IF abr.stableRepresentation = NULL THEN abr.knownStableBitrate = NULL
    ELSE /\ abr.knownStableBitrate # NULL
         /\ abr.knownStableBitrate[1] * DivisorAsClaimed
              = abr.stableRepresentation[1] * HintUnit * SpeedUnit

\* C30 as amended. The same, the bitrate being divided by the speed when the
\* speed is > 0 and by 1 otherwise.
C30_StableHint ==
  (abr.mode = "auto" /\ abr.speed # NULL) =>
    IF abr.stableRepresentation = NULL THEN abr.knownStableBitrate = NULL
    ELSE /\ abr.knownStableBitrate # NULL
         /\ abr.knownStableBitrate[1] * DivisorPositiveSpeed
              = abr.stableRepresentation[1] * HintUnit * SpeedUnit

\* At speed 0.5 the representation of bitrate 3 is stable: the hint is 6.
C30_Witness ==
  /\ abr.mode = "auto"
  /\ abr.speed = Some(1)
  /\ abr.stableRepresentation = Some(3)
  /\ abr.knownStableBitrate = Some(6 * HintUnit)

(***************************************************************************)
(* Properties of the playback clock. An observation is what a tick emits;  *)
(* in the states where `sampled` is set the state shows the last           *)
(* observation together with the timings it was computed from.             *)
(***************************************************************************)

Observed == sampled # NULL

\* The previous observation (prevTimings of getCurrentClockTick).
PrevTimings == sampled[1]

\* The statuses of the new observation.
NewTimings == clock.lastTimings

\* The timestamps of the statuses of the new observation.
NewTimestamps == sampled[2]

\* The media fields of the new observation.
Observation == getMediaInfos(mediaElement, clock.lastTimings.event)

ObservationFullyLoaded ==
  hasLoadedUntilTheEnd(Observation.currentRange, Observation.duration,
                       options.lowLatencyMode)

RebufferGap == REBUFFERING_GAP(Suffix(options.lowLatencyMode))

\* The resume gap chosen by the reason of the previous rebuffering status.
ResumeGapOfPrevious ==
  LET reason == PrevTimings.rebuffering[1].reason
      suffix == Suffix(options.lowLatencyMode)
  IN IF reason = "seeking" THEN RESUME_GAP_AFTER_SEEKING(suffix)
     ELSE IF reason = "not-ready" THEN RESUME_GAP_AFTER_NOT_ENOUGH_DATA(suffix)
     ELSE RESUME_GAP_AFTER_BUFFERING(suffix)

EnterCondition ==
  /\ Observation.readyState >= 1
  /\ Observation.event # "loadedmetadata"
  /\ ~Observation.ended
  /\ ~ObservationFullyLoaded
  /\ \/ Observation.bufferGap <= RebufferGap
     \/ Observation.bufferGap = Infinity

\* C3. With a media source, when the previous observation was not
\* rebuffering, the new observation is rebuffering if and only if
\* readyState >= 1, the event is not loadedmetadata, the media is not ended,
\* the current range is not loaded until the end, and bufferGap <= rebufferGap
\* or bufferGap = +Infinity.
C3_EnterRebuffering ==
  (Observed /\ options.withMediaSource /\ PrevTimings.rebuffering = NULL)
    => ((NewTimings.rebuffering # NULL) <=> EnterCondition)

\* Rebuffering is entered on a finite bufferGap at or below rebufferGap.
C3_Witness ==
  /\ Observed /\ options.withMediaSource
  /\ PrevTimings.rebuffering = NULL
  /\ NewTimings.rebuffering # NULL
  /\ Observation.bufferGap <= RebufferGap

\* The exit condition as the claims word it: +Infinity counts as a bufferGap
\* above resumeGap.
ExitConditionAsClaimed ==
  /\ Observation.readyState > 1
  /\ \/ ObservationFullyLoaded
     \/ Observation.ended
     \/ Observation.bufferGap > ResumeGapOfPrevious

ExitConditionFinite ==
  /\ Observation.readyState > 1
  /\ \/ ObservationFullyLoaded
     \/ Observation.ended
     \/ (Observation.bufferGap # Infinity /\ Observation.bufferGap > ResumeGapOfPrevious)

\* C4 as stated. With a media source, when the previous observation was
\* rebuffering and the new one has readyState > 1 and is fully loaded, or
\* ended, or has bufferGap > resumeGap, the new observation is not rebuffering.
C4_ExitAsClaimed ==
  (Observed /\ options.withMediaSource /\ PrevTimings.rebuffering # NULL
     /\ ExitConditionAsClaimed)
    => NewTimings.rebuffering = NULL

\* C4 as amended. The same, with "bufferGap is finite and > resumeGap".
C4_ExitRebuffering ==
  (Observed /\ options.withMediaSource /\ PrevTimings.rebuffering # NULL
     /\ ExitConditionFinite)
    => NewTimings.rebuffering = NULL

\* A rebuffering entered by a seek ends on a finite bufferGap above
\* RESUME_GAP_AFTER_SEEKING, the range being neither fully loaded nor ended.
C4_Witness ==
  /\ Observed /\ options.withMediaSource
  /\ PrevTimings.rebuffering # NULL
  /\ PrevTimings.rebuffering[1].reason = "seeking"
  /\ ~ObservationFullyLoaded /\ ~Observation.ended
  /\ Observation.bufferGap # Infinity
  /\ Observation.bufferGap > ResumeGapOfPrevious
  /\ Observation.readyState > 1
  /\ NewTimings.rebuffering = NULL

\* C5. With a media source, an observation that follows a rebuffering one and
\* does not satisfy the exit condition is rebuffering too; so rebuffering
\* lasts until the first observation satisfying the exit condition, and a
\* bufferGap above rebufferGap but at or below resumeGap does not end it.
C5_RebufferingPersists ==
  (Observed /\ options.withMediaSource /\ PrevTimings.rebuffering # NULL
     /\ ~ExitConditionAsClaimed)
    => NewTimings.rebuffering # NULL

\* Rebuffering goes on, on an observation that is ready to play and whose
\* bufferGap is above rebufferGap and at or below resumeGap.
C5_Witness ==
  /\ Observed /\ options.withMediaSource
  /\ PrevTimings.rebuffering # NULL
  /\ Observation.readyState > 1
  /\ Observation.bufferGap > RebufferGap
  /\ Observation.bufferGap <= ResumeGapOfPrevious
  /\ NewTimings.rebuffering # NULL

\* C6 as stated. In every observation emitted by the clock, rebuffering and
\* freezing are never both non-null.
C6_NeverBoth == ~(clock.lastTimings.rebuffering # NULL /\ clock.lastTimings.freezing)

\* C6 as amended. With a media source, an observation with a finite bufferGap
\* whose previous observation was neither rebuffering nor freezing does not
\* have both rebuffering and freezing non-null.
C6_NotBothEntered ==
  (Observed /\ options.withMediaSource /\ PrevTimings.rebuffering = NULL
     /\ ~PrevTimings.freezing /\ Observation.bufferGap # Infinity)
    => ~(NewTimings.rebuffering # NULL /\ NewTimings.freezing)

\* Freezing is entered, on a finite bufferGap, from an observation that was
\* neither rebuffering nor freezing.
C6_Witness ==
  /\ Observed /\ options.withMediaSource
  /\ PrevTimings.rebuffering = NULL /\ ~PrevTimings.freezing
  /\ Observation.bufferGap # Infinity
  /\ NewTimings.freezing
  /\ NewTimings.rebuffering = NULL

\* The conditions under which the clock enters rebuffering without a media
\* source.
DirectEnterCondition ==
  /\ Observation.readyState >= 1
  /\ Observation.event # "loadedmetadata"
  /\ ~Observation.ended
  /\ ~ObservationFullyLoaded
  /\ \/ (/\ Observation.event = "timeupdate"
         /\ PrevTimings.event = "timeupdate"
         /\ Observation.position = PrevTimings.position
         /\ ~Observation.paused)
     \/ (Observation.event = "seeking" /\ Observation.bufferGap = Infinity)

DirectEnterOnlyIf ==
  (Observed /\ ~options.withMediaSource /\ PrevTimings.rebuffering = NULL
     /\ NewTimings.rebuffering # NULL)
    => DirectEnterCondition

\* C21 as stated. Without a media source, an observation whose predecessor was
\* not rebuffering becomes rebuffering only if readyState >= 1, the event is
\* not loadedmetadata, the media is neither ended nor fully loaded, and either
\* it is a timeupdate following a timeupdate with the same position while not
\* paused, or it is a seeking event with an infinite buffer gap; and an
\* observation whose predecessor was rebuffering is not rebuffering when the
\* position has changed.
C21_DirectAsClaimed ==
  /\ DirectEnterOnlyIf
  /\ (Observed /\ ~options.withMediaSource /\ PrevTimings.rebuffering # NULL
        /\ Observation.position # PrevTimings.position)
       => NewTimings.rebuffering = NULL

\* C21 as amended. The same, the exit being for a position that has changed
\* on an event other than "seeking".
C21_DirectRebuffering ==
  /\ DirectEnterOnlyIf
  /\ (Observed /\ ~options.withMediaSource /\ PrevTimings.rebuffering # NULL
        /\ Observation.position # PrevTimings.position
        /\ Observation.event # "seeking")
       => NewTimings.rebuffering = NULL

\* A rebuffering entered on two timeupdates at the same position ends on a
\* timeupdate at another position, nothing being buffered.
C21_Witness ==
  /\ Observed /\ ~options.withMediaSource
  /\ PrevTimings.rebuffering # NULL
  /\ PrevTimings.rebuffering[1].reason # "seeking"
  /\ PrevTimings.event = "timeupdate"
  /\ Observation.event = "timeupdate"
  /\ Observation.position # PrevTimings.position
  /\ Observation.bufferGap = Infinity
  /\ NewTimings.rebuffering = NULL

\* The new observation ends a freezing status.
QuitFreezingCondition ==
  \/ Observation.ended
  \/ Observation.paused
  \/ Observation.readyState = 0
  \/ Observation.playbackRate = 0
  \/ Observation.position # PrevTimings.position

\* C34. When the previous observation was freezing, the new one has the same
\* freezing object, with the same timestamp, unless it is ended, paused, has
\* readyState 0, has playbackRate 0 or another position than the previous
\* one, in which case its freezing is null. When the previous observation was
\* not freezing, the new one is freezing (with a new timestamp) only if its
\* event is timeupdate, its position is the previous one, its bufferGap is
\* above MINIMUM_BUFFER_AMOUNT_BEFORE_FREEZING, its readyState is >= 1, its
\* playbackRate is not 0 and it is neither paused nor ended.
C34_FreezingKept ==
  Observed =>
    /\ PrevTimings.freezing =>
         IF QuitFreezingCondition
         THEN ~NewTimings.freezing /\ NewTimestamps.freezing = NULL
         ELSE NewTimings.freezing /\ NewTimestamps.freezing = Some("previous")
    /\ (~PrevTimings.freezing /\ NewTimings.freezing) =>
         /\ NewTimestamps.freezing = Some("now")
         /\ Observation.event = "timeupdate"
         /\ Observation.position = PrevTimings.position
         /\ Observation.bufferGap > MINIMUM_BUFFER_AMOUNT_BEFORE_FREEZING
         /\ Observation.readyState >= 1
         /\ Observation.playbackRate # 0
         /\ ~Observation.paused
         /\ ~Observation.ended

\* A freezing status is kept by an observation that is not a timeupdate and
\* whose bufferGap is below the threshold.
C34_Witness ==
  /\ Observed
  /\ PrevTimings.freezing
  /\ NewTimings.freezing
  /\ NewTimestamps.freezing = Some("previous")
  /\ Observation.event = "canplay"
  /\ Observation.bufferGap <= MINIMUM_BUFFER_AMOUNT_BEFORE_FREEZING

\* C35. When an observation and the previous one are both rebuffering: if the
\* previous reason was seeking the new one is seeking; the timestamp is the
\* previous one when the reason is the previous one, and a new one when the
\* reason has changed.
C35_StickyReason ==
  (Observed /\ PrevTimings.rebuffering # NULL /\ NewTimings.rebuffering # NULL) =>
    /\ PrevTimings.rebuffering[1].reason = "seeking"
         => NewTimings.rebuffering[1].reason = "seeking"
    /\ IF NewTimings.rebuffering[1].reason = PrevTimings.rebuffering[1].reason
       THEN NewTimestamps.rebuffering = Some("previous")
       ELSE NewTimestamps.rebuffering = Some("now")

\* A rebuffering entered by a seek goes on, with its timestamp, on an
\* observation that is not seeking any more and is ready to play.
C35_Witness ==
  /\ Observed
  /\ PrevTimings.rebuffering # NULL
  /\ PrevTimings.rebuffering[1].reason = "seeking"
  /\ ~Observation.seeking
  /\ Observation.event = "timeupdate"
  /\ Observation.readyState = 2
  /\ NewTimings.rebuffering # NULL
  /\ NewTimings.rebuffering[1].reason = "seeking"
  /\ NewTimestamps.rebuffering = Some("previous")

(***************************************************************************)
(* Properties of the segment request store.                                *)
(***************************************************************************)

\* The request objects of a complete segment id whose fetch is in flight.
ActiveFetches(id) ==
  { h \in 1..Len(store.objects) :
      store.objects[h].id = id /\ store.objects[h].subscription = "active" }

\* C7. After any sequence of createRequest, request.cancel and freeRequest
\* calls, at most one subscription to the segment fetcher is active per
\* complete segment id; and a createRequest call for an id the map already
\* held returned the stored request without calling the segment fetcher.
C7_OneFetchPerSegment ==
  /\ \A id \in SegmentIds : Cardinality(ActiveFetches(id)) <= 1
  /\ (store.lastCall # NULL /\ store.lastCall[1].stored # NULL)
       => /\ store.lastCall[1].returned = store.lastCall[1].stored[1]
          /\ ~store.lastCall[1].fetcherCalled

\* createRequest was called for an id the map already held, this id having
\* been requested, freed and requested again before, and its fetch is active.
C7_Witness ==
  /\ store.lastCall # NULL
  /\ store.lastCall[1].stored # NULL
  /\ \E h1, h2 \in 1..Len(store.objects) :
       /\ h1 # h2
       /\ store.objects[h1].id = store.lastCall[1].id
       /\ store.objects[h2].id = store.lastCall[1].id
  /\ ActiveFetches(store.lastCall[1].id) # {}

(***************************************************************************)
(* Properties of the custom segment loader wrapper.                        *)
(***************************************************************************)

\* C8. Once the cancel signal has fired, a call by the custom loader to its
\* resolve, reject, progress or fallback callback changes nothing: onProgress
\* is not invoked, the Promise is not settled, the regular loader is not
\* started (only the count of the calls made moves).
C8_NoEffectAfterCancel ==
  [][(loader.cancelled /\ loader'.calls > loader.calls)
       => loader' = called(loader)]_vars

\* A callback was called after a cancellation that happened while the custom
\* loader was being called, abortCustomLoader not having run.
C8_Witness ==
  /\ loader.cancelled
  /\ loader.lateCalls > 0
  /\ ~loader.hasFinished

\* C33. Of resolve, reject, fallback and the cancellation, only the one that
\* happens first takes effect, and it has taken effect as soon as the custom
\* loader has returned; res and rej are called at most once; the abort
\* function of the custom loader is called at most once, and only when the
\* cancellation came first; the regular loader a fallback starts is given the
\* cancel signal.
C33_FirstOutcomeOnly ==
  /\ loader.effect # NULL => loader.effect = loader.first
  /\ (loader.phase = "registered" /\ loader.first # NULL) => loader.effect = loader.first
  /\ loader.settleCalls <= 1
  /\ loader.abortCalls <= 1
  /\ loader.abortCalls > 0 => loader.first = Some("cancel")
  /\ loader.first = Some("cancel") => loader.promise \in {"pending", "rejected"}
  /\ loader.regular # "none" <=> loader.effect = Some("fallback")
  /\ loader.regular # "none" => loader.regularSignal = Some("cancelSignal")

\* The custom loader called fallback while it was being called, before
\* abortCustomLoader was registered; the signal was cancelled later, while
\* the regular loader was pending, and the custom loader then called resolve.
C33_Witness ==
  /\ loader.first = Some("fallback")
  /\ loader.phase = "registered"
  /\ loader.listener
  /\ loader.cancelled
  /\ loader.lateCalls > 0
  /\ loader.regular = "pending"
  /\ loader.abortCalls = 0
  /\ loader.promise = "pending"

(***************************************************************************)
(* Properties of the path selection of segmentLoader.                      *)
(***************************************************************************)

SegmentLoaderCalled == segmentLoad.phase # "idle"

\* No loader was called and no request was made.
NoLoaderCalled ==
  /\ segmentLoad.customCalls = 0 /\ segmentLoad.regularCalls = 0
  /\ segmentLoad.initCalls = 0 /\ segmentLoad.chunkedCalls = 0
  /\ segmentLoad.requests = 0

\* The condition the chunked streaming loader is claimed to be used under.
ChunkedCondition ==
  /\ segmentLoad.inputs.lowLatencyMode
  /\ ~segmentLoad.inputs.isInit
  /\ segmentLoad.inputs.containerType \in {"mp4", "undefined"}
  /\ segmentLoad.inputs.fetchIsSupported

\* C22. Once segmentLoader has been called: with a null URL the result is
\* "segment-created" and no loader is called nor request made; with a URL, the
\* custom loader is called (once) iff one is configured and lowLatencyMode is
\* false; whenever the regular path is taken (directly or by the fallback of
\* the custom loader) an init segment goes to the init-segment loader, with no
\* chunked load and no request; the chunked streaming loader is called iff
\* lowLatencyMode and the segment is not init and the container is mp4 or
\* unknown and fetch is supported; a regular path that is neither of these
\* makes exactly one buffered request, and no request is made otherwise.
C22_LoaderPath ==
  SegmentLoaderCalled =>
    IF segmentLoad.inputs.urlIsNull
    THEN segmentLoad.result = Some("segment-created") /\ NoLoaderCalled
    ELSE
      /\ (segmentLoad.customCalls > 0)
           <=> (segmentLoad.inputs.customSegmentLoader
                  /\ ~segmentLoad.inputs.lowLatencyMode)
      /\ segmentLoad.customCalls <= 1 /\ segmentLoad.regularCalls <= 1
      /\ (segmentLoad.customCalls = 0) => (segmentLoad.regularCalls = 1)
      /\ (segmentLoad.regularCalls = 1 /\ segmentLoad.inputs.isInit)
           => /\ segmentLoad.initCalls = 1
              /\ segmentLoad.chunkedCalls = 0
              /\ segmentLoad.requests = 0
      /\ (segmentLoad.initCalls > 0)
           => (segmentLoad.regularCalls = 1 /\ segmentLoad.inputs.isInit)
      /\ (segmentLoad.chunkedCalls > 0) <=> ChunkedCondition
      /\ segmentLoad.chunkedCalls <= 1
      /\ segmentLoad.requests =
           IF /\ segmentLoad.regularCalls = 1
              /\ ~segmentLoad.inputs.isInit
              /\ ~ChunkedCondition
           THEN 1 ELSE 0

\* A low-latency load of a media segment in an mp4 container on a browser
\* without fetch, a custom loader being configured: one buffered request and
\* no call of the custom loader.
C22_Witness ==
  /\ SegmentLoaderCalled
  /\ ~segmentLoad.inputs.urlIsNull
  /\ segmentLoad.inputs.customSegmentLoader
  /\ segmentLoad.inputs.lowLatencyMode
  /\ ~segmentLoad.inputs.isInit
  /\ segmentLoad.inputs.containerType = "mp4"
  /\ ~segmentLoad.inputs.fetchIsSupported
  /\ segmentLoad.requests = 1
  /\ segmentLoad.customCalls = 0

(***************************************************************************)
(* Properties of loadAndPushSegment.                                       *)
(***************************************************************************)

\* The ranks of the delivered chunks that carry data.
DataChunks == { j \in 1..Len(push.delivered) : push.delivered[j].data # NULL }

\* C9 as stated. A segment whose fetch failed or was cancelled has none of
\* its chunks appended to the source buffer.
C9_NoPartialCommit == push.fetch = "rejected" => push.appended = <<>>

\* C9 as amended. Every appendBuffer call carries the non-null data of a
\* chunk onChunk delivered, with one call per such chunk, whether the fetch
\* is pending, resolved or rejected; a rejected fetch rejects the returned
\* promise.
C9_AppendsAreDeliveredChunks ==
  /\ \A i \in 1..Len(push.appended) :
       /\ push.appended[i].data # NULL
       /\ \E j \in DataChunks : push.delivered[j].data = push.appended[i].data
  /\ Len(push.appended) = Cardinality(DataChunks)
  /\ push.fetch = "rejected" => push.result = "rejected"

\* The fetch was rejected after a chunk with data and a chunk without data
\* were delivered: the first stays appended.
C9_Witness ==
  /\ push.fetch = "rejected"
  /\ push.appended # <<>>
  /\ \E j \in 1..Len(push.delivered) : push.delivered[j].data = NULL

\* What the claim expects the source buffer to have received for a sequence
\* of delivered chunks.
RECURSIVE ExpectedAppends(_, _)
ExpectedAppends(period, chunks) ==
  IF chunks = <<>> THEN <<>>
  ELSE LET chunk == chunks[Len(chunks)]
           before == ExpectedAppends(period, SubSeq(chunks, 1, Len(chunks) - 1))
       IN IF chunk.data = NULL THEN before
          ELSE Append(before,
                      [data |-> chunk.data,
                       appendWindow |-> <<period.start, period.end>>,
                       timestampOffset |-> IF chunk.segmentType = "init" THEN 0
                                           ELSE chunk.chunkOffset])

\* C10. Within one segment, the appendBuffer calls are those of the chunks
\* with non-null data, in the order onChunk delivered them, each with append
\* window [period.start, period.end] and with timestampOffset 0 for an init
\* chunk and the parsed chunkOffset for a media chunk.
C10_AppendOrder == push.appended = ExpectedAppends(push.period, push.delivered)

\* Three chunks were delivered: one without data, an init chunk with a
\* non-zero chunkOffset and a media chunk with a non-zero chunkOffset.
C10_Witness ==
  /\ Len(push.delivered) = 3
  /\ Len(push.appended) = 2
  /\ \E j \in DataChunks :
       push.delivered[j].segmentType = "init" /\ push.delivered[j].chunkOffset # 0
  /\ \E j \in DataChunks :
       push.delivered[j].segmentType = "media" /\ push.delivered[j].chunkOffset # 0

\* An appendBuffer call made for the segment was rejected.
SomeAppendRejected ==
  \E k \in 1..Len(push.appendStates) : push.appendStates[k] = "rejected"

\* C36. The returned promise is resolved only when the fetch has resolved
\* and every appendBuffer call made for the chunks has resolved; it is
\* rejected when the fetch is rejected, and, once the fetch has resolved,
\* as soon as one of those calls is rejected; it is rejected in no other case.
C36_ResolvesAfterPushes ==
  /\ Len(push.appendStates) = Len(push.appended)
  /\ push.result = "resolved" =>
       /\ push.fetch = "resolved"
       /\ \A k \in 1..Len(push.appendStates) : push.appendStates[k] = "resolved"
  /\ push.fetch = "rejected" => push.result = "rejected"
  /\ (push.fetch = "resolved" /\ SomeAppendRejected) => push.result = "rejected"
  /\ push.result = "rejected" => (push.fetch = "rejected" \/ SomeAppendRejected)
  /\ push.fetch \in {"idle", "pending"} => push.result = "none"

\* The fetch has resolved after two chunks with data; the first append has
\* resolved, the second one is pending and the returned promise waits for it.
C36_Witness ==
  /\ push.fetch = "resolved"
  /\ Len(push.appended) = 2
  /\ push.appendStates = <<"resolved", "pending">>
  /\ push.result = "waiting"

\* C37. While estimator$ is subscribed to and has not failed, a run of the
\* pipeline on a list of playable representations that is not empty calls
\* abrManager.get$ again (ending the previous estimator, with its state)
\* exactly when the ordered list of ids differs from the one of the run
\* before, or when there was no run before; otherwise the estimator in place
\* is kept, and it stays subscribed to.
C37_EstimatorKept ==
  (estimator.checked # NULL /\ estimator.checked[1].playable # <<>>) =>
    LET run == estimator.checked[1]
        listChanged == run.previous = NULL \/ run.previous[1] # run.playable
    IN /\ estimator.abrStarts = run.abrStarts + (IF listChanged THEN 1 ELSE 0)
       /\ estimator.abrActive
       /\ estimator.previous = Some(run.playable)

\* Two decipherabilityUpdate events: the first one changed the list, the
\* second one left it as it was, and the second estimator is still in place.
C37_Witness ==
  /\ estimator.updates = 2
  /\ estimator.checked # NULL
  /\ estimator.checked[1].previous = Some(<<1>>)
  /\ estimator.checked[1].playable = <<1>>
  /\ estimator.checked[1].abrStarts = 2
  /\ estimator.abrStarts = 2
  /\ estimator.abrActive

\* C38. The request object createRequest returns is never one whose
\* subscription to the fetcher was closed by cancel before it received data
\* or an error; when the map held such a request for the segment, the call
\* started a new fetch.
C38_NoDeadRequest ==
  store.lastCall # NULL =>
    LET returnedRequest == store.lastCall[1].object
        isDead == /\ returnedRequest.subscription = "closed"
                  /\ ~returnedRequest.data
                  /\ ~returnedRequest.error
    IN /\ ~isDead
       /\ store.lastCall[1].fetcherCalled => returnedRequest.subscription = "active"

\* The last observation was emitted after the initial seek was asked for and
\* reports readyState >= 1, no seek and no rebuffering.
ReportsPlayableAfterSeek ==
  /\ play.afterSeek
  /\ play.observation # NULL
  /\ play.observation[1].seeking = "None"
  /\ ~play.observation[1].rebuffering
  /\ play.observation[1].readyState >= 1

\* C39. When the cancelSignal is never cancelled and the observations emitted
\* after the initial seek report, again and again, readyState >= 1, no seek
\* and no rebuffering, autoPlayResult eventually settles, whatever the other
\* observations are.
C39_InitialPlaySettles ==
  ([]~play.cancelled /\ []<>ReportsPlayableAfterSeek) => <>(play.autoPlayResult # NULL)

\* C40. With a server certificate in the key system options, every
\* MediaKeySession is created or reused once the setting of the server
\* certificate has completed: none while it has not begun or is going on.
C40_CertificateBeforeSession ==
  eme.serverCertificate =>
    \A n \in 1..Len(eme.sessions) :
      eme.sessions[n].certificate \in {"skipped", "set", "failed"}

(***************************************************************************)
(* Properties of updatePlaybackRate.                                       *)
(***************************************************************************)

\* The latest observation is rebuffering.
LatestRebuffering ==
  /\ rate.observation # NULL
  /\ rate.observation[1].rebuffering # NULL

\* C14. Once updatePlaybackRate is subscribed to: while the latest
\* observation is rebuffering the playback rate of the media element is 0,
\* whatever speed the user sets meanwhile; otherwise (before any rebuffering
\* observation, and as soon as an observation is no longer rebuffering) it is
\* the most recent user speed, including one set during the rebuffering.
C14_PlaybackRate ==
  rate.subscribed =>
    /\ LatestRebuffering => mediaElement.playbackRate = 0
    /\ ~LatestRebuffering => mediaElement.playbackRate = rate.speed

\* The speed 1 was applied, a rebuffering observation set the rate to 0, the
\* user chose the speed 2 during the rebuffering, and the observation that
\* ended the rebuffering applied 2.
C14_Witness ==
  /\ rate.subscribed
  /\ rate.observation # NULL
  /\ ~LatestRebuffering
  /\ rate.writes = <<1, 0, 2>>

(***************************************************************************)
(* Properties of performInitialSeekAndPlay.                                *)
(***************************************************************************)

\* Autoplay was requested and play() was rejected with `name`, without any
\* cancellation.
PlayFailedWith(name) ==
  /\ play.mustAutoPlay
  /\ play.playError = Some(name)
  /\ ~play.cancelled

\* C15. When autoplay is requested and play() is rejected with a
\* NotAllowedError, without cancellation, a MEDIA_ERR_BLOCKED_AUTOPLAY warning
\* is emitted, the result is autoplay-blocked and initialPlayPerformed is
\* true; any other error of play() is the failure of the result.
C15_AutoplayBlocked ==
  /\ PlayFailedWith("NotAllowedError") =>
       /\ \E i \in 1..Len(play.warnings) : play.warnings[i] = "MEDIA_ERR_BLOCKED_AUTOPLAY"
       /\ play.autoPlayResult = Some([status |-> "resolved", value |-> "autoplay-blocked"])
       /\ play.initialPlayPerformed
  /\ \A name \in PlayErrorNames \ {"NotAllowedError"} :
       PlayFailedWith(name) =>
         play.autoPlayResult = Some([status |-> "rejected", value |-> name])

\* C16. If the media element is ended when the content becomes playable,
\* then even with mustAutoPlay play() is never called, the result is
\* "skipped" and initialPlayPerformed is true.
C16_EndedSkipsPlay ==
  (play.mustAutoPlay /\ play.ended = Some(TRUE)) =>
    /\ play.playCalls = 0
    /\ play.autoPlayResult = Some([status |-> "resolved", value |-> "skipped"])
    /\ play.initialPlayPerformed

\* Autoplay was requested, the initial seek was made, and the content became
\* playable with an ended media element.
C16_Witness ==
  /\ play.mustAutoPlay
  /\ play.ended = Some(TRUE)
  /\ play.setCurrentTimeCalls = 1
  /\ play.phase = "done"
  /\ play.playCalls = 0

\* C32. mediaElement.play() is called at most once, only when mustAutoPlay
\* is set, only after setCurrentTime was called, and only on an observation
\* emitted after that call which has no seeking, no rebuffering and a
\* readyState >= 1. When mustAutoPlay is not set and the content was found
\* playable, the result is "skipped".
C32_PlayAfterSeek ==
  /\ play.playCalls <= 1
  /\ play.playCalls > 0 =>
       /\ play.mustAutoPlay
       /\ play.setCurrentTimeCalls = 1
       /\ play.playableOn # NULL
       /\ play.playableOn[1].afterSeek
       /\ play.playableOn[1].observation.seeking = "None"
       /\ ~play.playableOn[1].observation.rebuffering
       /\ play.playableOn[1].observation.readyState >= 1
  /\ (~play.mustAutoPlay /\ play.playableOn # NULL) =>
       /\ play.playCalls = 0
       /\ play.autoPlayResult = Some([status |-> "resolved", value |-> "skipped"])

\* The metadata of a directfile content were awaited, then the seek was
\* seen in progress, then a playable observation came and play() was called.
C32_Witness ==
  /\ play.isDirectfile
  /\ ~play.startTimeIsNumber
  /\ play.mustAutoPlay
  /\ play.phase = "playing"
  /\ play.playCalls = 1
  /\ play.setCurrentTimeCalls = 1
  /\ play.playableOn # NULL
  /\ play.playableOn[1].afterSeek

(***************************************************************************)
(* Properties of getDirectFileInitialTime.                                 *)
(***************************************************************************)

\* The startAt option holds a percentage and nothing else.
OnlyPercentage ==
  /\ directfile.startAt # NULL
  /\ directfile.startAt[1].percentage # NULL
  /\ directfile.startAt[1].position = NULL
  /\ directfile.startAt[1].wallClockTime = NULL
  /\ directfile.startAt[1].fromFirstPosition = NULL
  /\ directfile.startAt[1].fromLastPosition = NULL

\* C29. For a startAt option holding only a percentage p: with a known finite
\* duration D the initial time is 0 when p <= 0, D when p >= 100 and D * p / 100
\* otherwise, so it lies in [0, D]; with an unknown or infinite duration it is 0.
C29_PercentageStart ==
  (directfile.initialTime # NULL /\ OnlyPercentage) =>
    LET pc == directfile.startAt[1].percentage[1]
        t == directfile.initialTime[1]
    IN IF directfile.duration # NULL /\ directfile.duration[1] # Infinity
       THEN LET D == directfile.duration[1]
            IN /\ pc <= 0 => t = 0
               /\ pc >= 100 => t = D
               /\ (pc > 0 /\ pc < 100) => t * 100 = D * pc
               /\ 0 <= t /\ t <= D
       ELSE t = 0

\* Half of a duration of 200.
C29_Witness ==
  /\ OnlyPercentage
  /\ directfile.startAt[1].percentage = Some(50)
  /\ directfile.duration = Some(200)
  /\ directfile.initialTime = Some(100)

(***************************************************************************)
(* Properties of the PeriodStream.                                         *)
(***************************************************************************)

HasEvent(type) == \E i \in 1..Len(periodStream.events) : periodStream.events[i].type = type

\* C17. When the switch strategy of a newly chosen adaptation is
\* needs-reload, the PeriodStream emits needs-media-source-reload with the
\* tick the strategy was computed from, creates no AdaptationStream and calls
\* no removeBuffer for that adaptation.
C17_NeedsReload ==
  periodStream.strategy = Some("needs-reload") =>
    /\ \E i \in 1..Len(periodStream.events) :
         /\ periodStream.events[i].type = "needsMediaSourceReload"
         /\ periodStream.events[i].value = periodStream.strategyTick[1]
         /\ \A j \in 1..Len(periodStream.events) :
              periodStream.events[j].type = "needsMediaSourceReload" => j = i
    /\ periodStream.adaptationStreams = 0
    /\ periodStream.removeBufferCalls = 0
    /\ periodStream.stream # "adaptation"

\* The second adaptation chosen needed a reload, on the second tick, and the
\* clock went on.
C17_Witness ==
  /\ periodStream.strategy = Some("needs-reload")
  /\ periodStream.switches = 2
  /\ periodStream.adaptation # NULL
  /\ periodStream.events[Len(periodStream.events)] = PeriodEvent("needsMediaSourceReload", 2)
  /\ periodStream.tick = 3

\* C18. When the AdaptationStream fails: for a non-native buffer type the
\* source buffer is disposed, a warning is emitted, an empty stream replaces
\* the AdaptationStream and the PeriodStream does not fail; for a native
\* buffer type the error is thrown again and ends the PeriodStream.
C18_AdaptationStreamFailure ==
  periodStream.crashed =>
    IF periodStream.isNative
    THEN /\ periodStream.error = Some("AdaptationStreamError")
         /\ periodStream.stream = "ended"
    ELSE /\ periodStream.disposeCalls = 1
         /\ HasEvent("warning")
         /\ periodStream.stream = "empty"
         /\ periodStream.error = NULL

\* The AdaptationStream of a non-native type failed after its buffer was
\* cleaned, and the clock went on.
C18_Witness ==
  /\ periodStream.crashed
  /\ ~periodStream.isNative
  /\ periodStream.strategy = Some("clean-buffer")
  /\ periodStream.tick = 2
  /\ periodStream.stream = "empty"

\* Every removal called for the last adaptation has completed.
EveryRemovalCompleted ==
  \A i \in 1..Len(periodStream.removals) : periodStream.removals[i].state = "completed"

\* C23. With a clean-buffer strategy: removeBuffer is called once per listed
\* range, in the order of the list; a removal is subscribed to only when every
\* removal before it in the list has completed, so at most one is in progress;
\* and the AdaptationStream and its garbage collector are subscribed to
\* (together, at most once) only when every removal has completed and
\* waitForUsableSourceBuffers has emitted.
C23_CleanBufferOrder ==
  periodStream.strategy = Some("clean-buffer") =>
    /\ Len(periodStream.removals) = periodStream.removeBufferCalls
    /\ Len(periodStream.removals) >= 1
    /\ \A i \in 1..Len(periodStream.removals) :
         /\ periodStream.removals[i].range = i
         /\ periodStream.removals[i].state # "created"
              => /\ periodStream.usable
                 /\ \A j \in 1..(i - 1) : periodStream.removals[j].state = "completed"
    /\ periodStream.subscriptions = periodStream.gcSubscriptions
    /\ periodStream.subscriptions <= 1
    /\ (periodStream.subscriptions > 0 \/ periodStream.stream = "adaptation")
         => (EveryRemovalCompleted /\ periodStream.usable)

\* Two ranges were listed; the second removal is in progress, the first one
\* has completed and the AdaptationStream is not subscribed to yet.
C23_Witness ==
  /\ periodStream.strategy = Some("clean-buffer")
  /\ Len(periodStream.removals) = 2
  /\ periodStream.removals[1].state = "completed"
  /\ periodStream.removals[2].state = "subscribed"
  /\ periodStream.subscriptions = 0

\* C31. At any time every Observable the inner stream is subscribed to
\* (clock, removal, AdaptationStream, garbage collector, empty stream) was
\* subscribed for the adaptation chosen last; nothing was ever subscribed to
\* or emitted for an adaptation while an Observable of another one was still
\* subscribed to; at most one AdaptationStream is subscribed to; and the first
\* event ever emitted is periodStreamReady, no adaptation being chosen before.
C31_SingleAdaptationStream ==
  /\ \A r \in periodStream.live : r.switch = periodStream.switches
  /\ ~periodStream.overlap
  /\ periodStream.subscriptions <= 1
  /\ (periodStream.first # NULL \/ periodStream.switches > 0)
       => periodStream.first = Some("periodStreamReady")

\* The AdaptationStream of the second adaptation chosen is subscribed to,
\* with its garbage collector, after the one of the first adaptation was.
C31_Witness ==
  /\ periodStream.switches = 2
  /\ periodStream.tick = 2
  /\ periodStream.strategy = Some("continue")
  /\ periodStream.stream = "adaptation"
  /\ [switch |-> 2, kind |-> "adaptationStream"] \in periodStream.live
  /\ [switch |-> 2, kind |-> "garbageCollector"] \in periodStream.live
  /\ periodStream.first = Some("periodStreamReady")

(***************************************************************************)
(* Properties of createRepresentationEstimator.                            *)
(***************************************************************************)

\* C19. On subscription and after every decipherabilityUpdate, if the
\* adaptation has no playable representation the estimator has failed with
\* NO_PLAYABLE_REPRESENTATION, no ABR estimation is running, and the run that
\* found no playable representation started none.
C19_NoPlayableRepresentation ==
  /\ (estimator.subscribed /\ estimator.playable = <<>>) =>
       /\ estimator.error = Some("NO_PLAYABLE_REPRESENTATION")
       /\ ~estimator.abrActive
  /\ (estimator.checked # NULL /\ estimator.checked[1].playable = <<>>) =>
       /\ estimator.error = Some("NO_PLAYABLE_REPRESENTATION")
       /\ estimator.abrStarts = estimator.checked[1].abrStarts

\* ABR estimations were started for two different lists, then an update left
\* no playable representation.
C19_Witness ==
  /\ estimator.subscribed
  /\ estimator.playable = <<>>
  /\ estimator.abrStarts = 2
  /\ estimator.checked # NULL
  /\ estimator.checked[1].playable = <<>>

(***************************************************************************)
(* Properties of the internal seeks of the clock.                          *)
(***************************************************************************)

\* The state is the one a tick has just produced for a "seeking" media
\* event, reported under the name `event`.
SeekingReportedAs(event) ==
  /\ sampled # NULL
  /\ clock.lastTimings.event = event

\* C20. For any interleaving of setCurrentTime calls and "seeking" events:
\* the pending counter is the number of setCurrentTime calls minus the number
\* of seeking events reported as internal, and is never negative; a seeking
\* event is reported as "seeking" only when no call is pending (as many calls
\* as events already reported as internal) and as "internal-seeking" only
\* when there were more calls than events already reported as internal.
C20_InternalSeeks ==
  /\ clock.internalSeekingComingCounter >= 0
  /\ clock.internalSeekingComingCounter = clock.setCurrentTimeCalls - clock.internalSeeks
  /\ SeekingReportedAs("seeking") => clock.setCurrentTimeCalls = clock.internalSeeks
  /\ SeekingReportedAs("internal-seeking") =>
       clock.setCurrentTimeCalls > clock.internalSeeks - 1

\* Three calls of setCurrentTime were made before any seeking event: two
\* events have been reported as internal and the third call is pending.
C20_Witness ==
  /\ SeekingReportedAs("internal-seeking")
  /\ clock.setCurrentTimeCalls = 3
  /\ clock.internalSeeks = 2
  /\ clock.internalSeekingComingCounter = 1

====
